---- MODULE Spec2Model ----
(***************************************************************************)
(* Model of NodePackageBuilder (src/unnamed/part_000): build sessions that *)
(* turn a script into one executable per target platform.  The state is    *)
(* the disk (workspaces, runtime cache, output executables) and, for each   *)
(* session, its position in build().                                        *)
(***************************************************************************)
EXTENDS Integers, Sequences, FiniteSets, TLC

\* ---------------------------------------------------------------- bounds
MaxPlatforms == 2      \* longest requested platform list
MaxNameLen == 5        \* longest output base name (characters)
MaxIndexLen == 2       \* longest version index (entries)
MaxParts == 3          \* most dot-separated components of a compared version

\* ------------------------------------------------------------- constants
Sessions == {"s1", "s2"}
SupportedPlatforms == {"linux", "darwin", "win32"}
RequestedPlatforms == SupportedPlatforms \cup {"freebsd"}
BuildIds == {"build-1-aa", "build-2-bb"}
Chars == {"a", ".", "e", "x"}
ExeSuffix == <<".", "e", "x", "e">>
NoVersion == [parts |-> <<0, 0, 0>>, tag |-> ""]

\* ------------------------------------------------------------- variables
VARIABLES
  host,       \* process.platform
  hostVersion,\* process.version without the leading "v", as numeric parts
  opts,       \* opts[s]: this.options of session s
  buildId,    \* buildId[s]: this.buildId
  pc,         \* pc[s]: where session s stands in build()
  idx,        \* idx[s]: index of the platform being built
  results,    \* results[s]: the results array of build()
  pending,    \* pending[s]: the error thrown in the current pipeline, or "none"
  version,    \* version[s]: version resolved by downloadNodeBinary
  nodePath,   \* nodePath[s]: base binary of createExecutable
  workDirs,   \* build ids whose workspace directory exists under tempDir
  configs,    \* config files: <<buildId, platform>> -> serialized config
  blobs,      \* blob files: <<buildId, platform>> -> content
  cache,      \* the runtime cache under ~/.node-package-builder/cache
  outFiles,   \* executables in the working directory: name -> content
  trace,      \* trace[s]: stages run for the current platform (history)
  failedAt,   \* failedAt[s][i]: the stage of platform i that threw, or "none" (history)
  started,    \* started[s]: number of buildForPlatform calls (history)
  cleaned,    \* cleaned[s]: indices of the platforms whose cleanup([config, blob]) ran (history)
  teardowns,  \* teardowns[s]: number of cleanupTempDir calls (history)
  acqStart,   \* acqStart[s]: cache contents when downloadNodeBinary began (history)
  index,      \* the entries the remote version index (dist/index.json) holds
  fetched,    \* fetched[s]: how the index request of the current platform ended (history)
  probe,      \* probe[s]: how the --help run of verifyWindowsExecutable ended (history)
  mainFile,   \* what the entry-point path options.main refers to on disk
  tools,      \* the signing subprocesses that succeed on this host
  exit,       \* exit[s]: exit code of the CLI process that runs session s, if any
  asked,      \* a call of isVersionGreaterOrEqual by a user of the class, and its answer
  warned,     \* warned[s]: the warnings logged for the current platform
  url,        \* url[s]: downloadUrl of downloadNodeBinary
  extraction, \* extraction[s]: the archive read by extractTarGz and the files it left
  tempRoot,   \* names of the entries of the temp root other than the sessions' workspaces
  sweep,      \* the last run of cleanupAllTempDirs: what it listed and removed (history)
  calls       \* calls[s]: how the teardown of each earlier build() call of s ended (history)

vars == <<host, hostVersion, opts, buildId, pc, idx, results, pending, version, nodePath,
          workDirs, configs, blobs, cache, outFiles, trace, failedAt, started,
          cleaned, teardowns, acqStart, index, fetched, probe,
          mainFile, tools, exit, asked, warned, url, extraction,
          tempRoot, sweep, calls>>

\* ------------------------------------------------------- pure functions

\* String.prototype.endsWith on character sequences.
endsWith(s, suffix) ==
  /\ Len(s) >= Len(suffix)
  /\ SubSeq(s, Len(s) - Len(suffix) + 1, Len(s)) = suffix

\* Number(text) of a string of decimal digits ("" gives 0).
RECURSIVE Number(_)
Number(digits) ==
  IF digits = <<>> THEN 0
  ELSE 10 * Number(SubSeq(digits, 1, Len(digits) - 1)) + digits[Len(digits)]

\* version.split('.').map(Number): a version string is the sequence of its
\* dot-separated components, each a string of digits.
splitNumbers(text) == [i \in 1..Len(text) |-> Number(text[i])]

\* A missing component counted as one (sensitivity of C28).
partOrOne(parts, i) == IF i <= Len(parts) THEN parts[i] ELSE 1

\* parts[i] || 0
partOrZero(parts, i) == IF i <= Len(parts) THEN parts[i] ELSE 0

Max(a, b) == IF a >= b THEN a ELSE b

\* isVersionGreaterOrEqual: the loop over the dot-separated numeric parts.
RECURSIVE versionLoop(_, _, _)
versionLoop(currentParts, requiredParts, i) ==
  IF i > Max(Len(currentParts), Len(requiredParts)) THEN TRUE
  ELSE IF partOrZero(currentParts, i) > partOrZero(requiredParts, i) THEN TRUE
  ELSE IF partOrZero(currentParts, i) < partOrZero(requiredParts, i) THEN FALSE
  ELSE versionLoop(currentParts, requiredParts, i + 1)

isVersionGreaterOrEqual(current, required) == versionLoop(current, required, 1)

requiredVersion == <<19, 9, 0>>

\* checkNodeVersion: TRUE when the constructor does not throw.
checkNodeVersion(current) == isVersionGreaterOrEqual(current, requiredVersion)

\* getExecutableName without the endsWith test (sensitivity of C8).
getExecutableNameAlways(baseName, platform) ==
  IF platform = "win32" THEN baseName \o ExeSuffix ELSE baseName

\* getExecutableName: output name with the platform's extension.
getExecutableName(baseName, platform) ==
  IF platform = "win32"
  THEN (IF endsWith(baseName, ExeSuffix) THEN baseName ELSE baseName \o ExeSuffix)
  ELSE baseName

\* The name createExecutable copies to (it repeats the suffix rule).
copyTarget(executableName, platform) ==
  IF platform = "win32" /\ ~endsWith(executableName, ExeSuffix)
  THEN executableName \o ExeSuffix
  ELSE executableName

\* A template string is the sequence of its pieces: Lit is literal text, Ver an
\* interpolated version.
Lit(text) == [lit |-> text, ver |-> NoVersion]
Ver(v) == [lit |-> "", ver |-> v]

baseUrl == <<Lit("https://nodejs.org/dist")>>
arch == Lit("x64")

\* `${baseUrl}/v${version}/node-v${version}-${token}-${arch}${ext}`
urlTemplate(v, token, ext) ==
  baseUrl \o <<Lit("/v"), Ver(v), Lit("/node-v"), Ver(v), Lit("-"), Lit(token), Lit("-"),
              arch, Lit(ext)>>

\* getNodeDownloadUrl giving every platform the tar.gz name (sensitivity of C27).
getNodeDownloadUrlTarOnly(v, platform) ==
  IF platform = "win32"
  THEN [ok |-> TRUE, url |-> urlTemplate(v, "win", ".tar.gz")]
  ELSE IF platform = "darwin"
  THEN [ok |-> TRUE, url |-> urlTemplate(v, "darwin", ".tar.gz")]
  ELSE IF platform = "linux"
  THEN [ok |-> TRUE, url |-> urlTemplate(v, "linux", ".tar.gz")]
  ELSE [ok |-> FALSE, url |-> <<>>]

\* getNodeDownloadUrl: [ok |-> FALSE] stands for the thrown 'Unsupported platform'.
getNodeDownloadUrl(v, platform) ==
  IF platform = "win32"
  THEN [ok |-> TRUE, url |-> urlTemplate(v, "win", ".zip")]
  ELSE IF platform = "darwin"
  THEN [ok |-> TRUE, url |-> urlTemplate(v, "darwin", ".tar.gz")]
  ELSE IF platform = "linux"
  THEN [ok |-> TRUE, url |-> urlTemplate(v, "linux", ".tar.gz")]
  ELSE [ok |-> FALSE, url |-> <<>>]

\* semver order on index entries: [parts |-> <<major, minor, patch>>, tag |-> ...]
\* with tag "" for a release; a pre-release sorts below its release.
semverGte(e, parts) ==
  \/ e.parts # parts /\ isVersionGreaterOrEqual(e.parts, parts)
  \/ e.parts = parts /\ e.tag = ""

semverLte(e, parts) == isVersionGreaterOrEqual(parts, e.parts)

minVersion == <<19, 9, 0>>
maxVersion == <<22, 99, 99>>
fallbackVersion == [parts |-> <<20, 18, 0>>, tag |-> ""]
preferredVersions == << <<20, 18, 0>>, <<20, 17, 0>>, <<20, 16, 0>>, <<20, 15, 1>> >>

\* The filter without the pre-release exclusion (sensitivity of C13).
validEntryAnyTag(e) ==
  /\ semverGte(e, minVersion)
  /\ semverLte(e, maxVersion)

validEntry(e) ==
  /\ semverGte(e, minVersion)
  /\ semverLte(e, maxVersion)
  /\ e.tag # "rc"
  /\ e.tag # "beta"

\* Array.prototype.filter / find
filterValid(versions) == SelectSeq(versions, validEntry)

\* Array.prototype.find: the index of the first element among `hits`, 0 if none.
firstOf(hits) == IF hits = {} THEN 0 ELSE CHOOSE i \in hits : \A j \in hits : i <= j

isPreferred(e, preferred) == e.parts = preferred /\ e.tag = ""

isLts20(e) == e.lts /\ e.parts[1] = 20

versionOf(e) == [parts |-> e.parts, tag |-> e.tag]

\* find matching any preferred version instead of the given one (sensitivity of C15).
findPreferredAny(valid, preferred) ==
  firstOf({i \in 1..Len(valid) :
             \E j \in 1..Len(preferredVersions) : isPreferred(valid[i], preferredVersions[j])})

findPreferred(valid, preferred) ==
  firstOf({i \in 1..Len(valid) : isPreferred(valid[i], preferred)})

findLts20(valid) == firstOf({i \in 1..Len(valid) : isLts20(valid[i])})

\* getRecommendedNodeVersion letting the 'No valid Node.js versions' error
\* escape instead of falling back (sensitivity of C14).
getRecommendedNodeVersionNoCatch(response) ==
  IF ~response.ok THEN fallbackVersion
  ELSE
    LET valid == filterValid(response.data)
        k == firstOf({j \in 1..Len(preferredVersions) :
                        findPreferred(valid, preferredVersions[j]) # 0})
        lts == findLts20(valid)
    IN  IF Len(valid) = 0 THEN NoVersion
        ELSE IF k # 0 THEN versionOf(valid[findPreferred(valid, preferredVersions[k])])
        ELSE IF lts # 0 THEN versionOf(valid[lts])
        ELSE versionOf(valid[1])

\* getRecommendedNodeVersion on a response: [ok |-> FALSE] is a failed request.
getRecommendedNodeVersion(response) ==
  IF ~response.ok THEN fallbackVersion
  ELSE
    LET valid == filterValid(response.data)
        k == firstOf({j \in 1..Len(preferredVersions) :
                        findPreferred(valid, preferredVersions[j]) # 0})
        lts == findLts20(valid)
    IN  IF Len(valid) = 0 THEN fallbackVersion
        ELSE IF k # 0 THEN versionOf(valid[findPreferred(valid, preferredVersions[k])])
        ELSE IF lts # 0 THEN versionOf(valid[lts])
        ELSE versionOf(valid[1])

\* ------------------------------------------------------------ disk helpers
NoBlob == <<"none", "none">>
NoUrl == <<>>
NoExtraction == [ran |-> FALSE, members |-> {}, files |-> {}, dirs |-> {}]
NoQuestion == [current |-> <<>>, required |-> <<>>, answer |-> "none"]
NoSweep == [runs |-> 0, listed |-> {}, removed |-> {}, failed |-> {}, raised |-> FALSE]
NoPath == [src |-> "host", key |-> <<"none", NoVersion>>]

EmptyCache ==
  [root |-> FALSE, platDirs |-> {}, verDirs |-> {}, bins |-> <<>>, archives |-> <<>>]

\* A cache in which earlier successful acquisitions left the entries `keys`.
WarmCache(keys) ==
  [root |-> TRUE,
   platDirs |-> {k[1] : k \in keys},
   verDirs |-> keys,
   bins |-> [k \in keys |-> [content |-> "full",
                             mode |-> IF k[1] = "win32" THEN "default" ELSE "755"]],
   archives |-> <<>>]

\* f with key k removed / restricted to the keys satisfying keep
Remove(f, k) == [x \in DOMAIN f \ {k} |-> f[x]]
Put(f, k, v) == (k :> v) @@ f

currentPlatform(s) == opts[s].platforms[idx[s]]
tempBuildDir(s) == buildId[s]
\* The config file placed in the temp root itself (sensitivity of C24).
configPathShared(s) == <<"tmp", currentPlatform(s)>>

\* path.join(this.tempBuildDir, `sea-config-${platform}-${this.buildId}.json`)
configPath(s) == <<buildId[s], currentPlatform(s)>>
blobPath(s) == <<buildId[s], currentPlatform(s)>>
executablePath(s) == <<currentPlatform(s), version[s]>>
archivePath(s) == <<currentPlatform(s), version[s]>>

\* createSeaConfig: the configuration object that is serialized.
\* createSeaConfig without the cross-platform override (sensitivity of C7).
seaConfigNoForce(o, platform, hostPlatform, output) ==
  IF o.assets # {}
  THEN [main |-> o.main, output |-> output,
        disableExperimentalSEAWarning |-> o.disableExperimentalSEAWarning,
        useSnapshot |-> o.useSnapshot, useCodeCache |-> o.useCodeCache,
        assets |-> o.assets]
  ELSE [main |-> o.main, output |-> output,
        disableExperimentalSEAWarning |-> o.disableExperimentalSEAWarning,
        useSnapshot |-> o.useSnapshot, useCodeCache |-> o.useCodeCache]

seaConfig(o, platform, hostPlatform, output) ==
  LET cross == platform # hostPlatform
      snap == IF cross THEN FALSE ELSE o.useSnapshot
      cc == IF cross THEN FALSE ELSE o.useCodeCache
  IN  IF o.assets # {}
      THEN [main |-> o.main, output |-> output,
            disableExperimentalSEAWarning |-> o.disableExperimentalSEAWarning,
            useSnapshot |-> snap, useCodeCache |-> cc, assets |-> o.assets]
      ELSE [main |-> o.main, output |-> output,
            disableExperimentalSEAWarning |-> o.disableExperimentalSEAWarning,
            useSnapshot |-> snap, useCodeCache |-> cc]

\* ------------------------------------------------------------ build() loop

\* The value buildForPlatform returns.
successResult(platform, executableName, id) ==
  [platform |-> platform, success |-> TRUE, executable |-> executableName,
   path |-> <<"cwd", executableName>>, buildId |-> id]

\* A failed result that also carries success fields (sensitivity of C4).
failedResultMixed(platform, message) ==
  [platform |-> platform, success |-> FALSE, error |-> message,
   executable |-> <<>>, path |-> <<"cwd", <<>>>>]

\* The value the catch block of build() pushes.
failedResult(platform, message) ==
  [platform |-> platform, success |-> FALSE, error |-> message]

\* Where build() goes once platform i of n has its result: the for loop.
\* The loop leaving at the first failed platform (sensitivity of C1).
afterPlatformAbort(i, n, ok) == IF i < n /\ ok THEN "config" ELSE "teardown"

\* The loop leaving after its first platform (sensitivity of C5).
afterPlatformEarly(i, n, ok) == "teardown"

afterPlatform(i, n, ok) == IF i < n THEN "config" ELSE "teardown"

\* results.push(...) of build(), on either path.
\* unshift instead of push (sensitivity of C2).
pushResultFront(res, r) == <<r>> \o res

pushResult(res, r) == Append(res, r)

\* The loop going on to the next platform before the result of this one has
\* arrived (sensitivity of C32).
FinishOverlap(s, r) ==
  /\ results' = results
  /\ pc' = [pc EXCEPT ![s] = afterPlatform(idx[s], Len(opts[s].platforms), r.success)]
  /\ idx' = [idx EXCEPT ![s] = IF @ < Len(opts[s].platforms) THEN @ + 1 ELSE @]
  /\ pending' = [pending EXCEPT ![s] = "none"]
  /\ trace' = [trace EXCEPT ![s] = <<>>]
  /\ version' = [version EXCEPT ![s] = NoVersion]
  /\ nodePath' = [nodePath EXCEPT ![s] = NoPath]
  /\ acqStart' = [acqStart EXCEPT ![s] = EmptyCache]
  /\ fetched' = [fetched EXCEPT ![s] = "none"]
  /\ probe' = [probe EXCEPT ![s] = "none"]
  /\ warned' = [warned EXCEPT ![s] = {}]
  /\ url' = [url EXCEPT ![s] = NoUrl]
  /\ extraction' = [extraction EXCEPT ![s] = NoExtraction]

\* One platform's pipeline has ended with result r.
Finish(s, r) ==
  /\ results' = [results EXCEPT ![s] = pushResult(@, r)]
  /\ pc' = [pc EXCEPT ![s] = afterPlatform(idx[s], Len(opts[s].platforms), r.success)]
  /\ idx' = [idx EXCEPT ![s] = IF @ < Len(opts[s].platforms) THEN @ + 1 ELSE @]
  /\ pending' = [pending EXCEPT ![s] = "none"]
  /\ trace' = [trace EXCEPT ![s] = <<>>]
  /\ version' = [version EXCEPT ![s] = NoVersion]
  /\ nodePath' = [nodePath EXCEPT ![s] = NoPath]
  /\ acqStart' = [acqStart EXCEPT ![s] = EmptyCache]
  /\ fetched' = [fetched EXCEPT ![s] = "none"]
  /\ probe' = [probe EXCEPT ![s] = "none"]
  /\ warned' = [warned EXCEPT ![s] = {}]
  /\ url' = [url EXCEPT ![s] = NoUrl]
  /\ extraction' = [extraction EXCEPT ![s] = NoExtraction]

\* A stage threw inside the try block of buildForPlatform: its catch runs next.
Throw(s, stage) ==
  /\ pending' = [pending EXCEPT ![s] = stage]
  /\ failedAt' = [failedAt EXCEPT ![s][idx[s]] = stage]
  /\ pc' = [pc EXCEPT ![s] = "cleanup"]

\* The stage completed without throwing.
NoThrow == pending' = pending /\ failedAt' = failedAt

Step(s, stage) == trace' = [trace EXCEPT ![s] = Append(@, stage)]

\* ----------------------------------------------------------------- actions

\* new NodePackageBuilder(options): generateBuildId, checkNodeVersion, ensureTempDir.
Construct(s) ==
  /\ pc[s] = "new"
  /\ \E id \in BuildIds \ {buildId[t] : t \in {u \in Sessions : pc[u] \notin {"absent", "new"}}} :
       /\ buildId' = [buildId EXCEPT ![s] = id]
       /\ IF checkNodeVersion(hostVersion)
          THEN /\ workDirs' = workDirs \cup {id}
               /\ pc' = [pc EXCEPT ![s] = "ready"]
          ELSE /\ workDirs' = workDirs
               /\ pc' = [pc EXCEPT ![s] = "rejected"]
  /\ UNCHANGED <<tempRoot, sweep, calls, mainFile, tools, exit, asked, warned, url, extraction, 
                 index, fetched, probe, host, hostVersion, opts, idx, results, pending, version, nodePath,
                 configs, blobs, cache, outFiles, trace, failedAt, started,
                 cleaned, teardowns, acqStart>>

\* build() is called: results = [] and the loop starts.
BuildStart(s) ==
  /\ pc[s] = "ready"
  /\ results' = [results EXCEPT ![s] = <<>>]
  /\ failedAt' = [failedAt EXCEPT ![s] = [i \in 1..Len(opts[s].platforms) |-> "none"]]
  /\ started' = [started EXCEPT ![s] = 0]
  /\ cleaned' = [cleaned EXCEPT ![s] = {}]
  /\ teardowns' = [teardowns EXCEPT ![s] = <<>>]
  /\ idx' = [idx EXCEPT ![s] = 1]
  /\ pc' = [pc EXCEPT ![s] = IF opts[s].platforms = <<>> THEN "teardown" ELSE "config"]
  /\ UNCHANGED <<tempRoot, sweep, calls, mainFile, tools, exit, asked, warned, url, extraction, 
                 index, fetched, probe, host, hostVersion, opts, buildId, pending, version, nodePath,
                 workDirs, configs, blobs, cache, outFiles, trace, acqStart>>

\* buildForPlatform starts: createSeaConfig writes the config file. It runs
\* before the try block, so a failed write goes straight to the catch of build().
CreateSeaConfig(s) ==
  /\ pc[s] = "config"
  /\ started' = [started EXCEPT ![s] = @ + 1]
  /\ \E io \in BOOLEAN :
       IF io /\ tempBuildDir(s) \in workDirs
       THEN /\ configs' = Put(configs, configPath(s),
                              seaConfig(opts[s], currentPlatform(s), host, blobPath(s)))
            /\ pc' = [pc EXCEPT ![s] = "blob"]
            /\ trace' = [trace EXCEPT ![s] = <<"config">>]
            /\ UNCHANGED <<results, failedAt, idx, pending, version, nodePath, acqStart,
                           fetched, probe, warned, url, extraction>>
       ELSE /\ configs' = configs
            /\ Finish(s, failedResult(currentPlatform(s), "config"))
            /\ failedAt' = [failedAt EXCEPT ![s][idx[s]] = "config"]
  /\ UNCHANGED <<tempRoot, sweep, calls, mainFile, tools, exit, asked, 
                 index, host, hostVersion, opts, buildId,
                 workDirs, blobs, cache, outFiles, cleaned, teardowns>>

\* generateBlob: the runtime compiles the config into the blob at config.output;
\* it reads config.main and fails when that is not a readable file.
GenerateBlob(s) ==
  /\ pc[s] = "blob"
  /\ Step(s, "blob")
  /\ \E out \in {"ok", "fail", "partial"} :
       IF /\ out = "ok" /\ configPath(s) \in DOMAIN configs /\ tempBuildDir(s) \in workDirs
          /\ mainFile = "file"
       THEN /\ blobs' = Put(blobs, configs[configPath(s)].output,
                            [config |-> configs[configPath(s)], complete |-> TRUE])
            /\ pc' = [pc EXCEPT ![s] = "assemble"]
            /\ NoThrow
       ELSE /\ blobs' = IF out = "partial" /\ configPath(s) \in DOMAIN configs
                           /\ tempBuildDir(s) \in workDirs /\ mainFile = "file"
                        THEN Put(blobs, configs[configPath(s)].output,
                                 [config |-> configs[configPath(s)], complete |-> FALSE])
                        ELSE blobs
            /\ Throw(s, "blob")
  /\ UNCHANGED <<tempRoot, sweep, calls, mainFile, tools, exit, asked, warned, url, extraction, 
                 index, fetched, probe, host, hostVersion, opts, buildId, idx, results, version, nodePath,
                 workDirs, configs, cache, outFiles, started,
                 cleaned, teardowns, acqStart>>

\* createExecutable calling downloadNodeBinary whatever the target (sensitivity of C11).
AssembleAlwaysDownload(s) ==
  /\ pc[s] = "assemble"
  /\ Step(s, "assemble")
  /\ nodePath' = nodePath
  /\ pc' = [pc EXCEPT ![s] = "resolve"]
  /\ acqStart' = [acqStart EXCEPT ![s] = cache]
  /\ UNCHANGED <<tempRoot, sweep, calls, mainFile, tools, exit, asked, warned, url, extraction, 
                 index, fetched, probe, host, hostVersion, opts, buildId, idx, results,
                 pending, version, workDirs, configs, blobs, cache, outFiles, failedAt,
                 started, cleaned, teardowns>>

\* createExecutable, first lines: the host's own binary, or downloadNodeBinary.
Assemble(s) ==
  /\ pc[s] = "assemble"
  /\ Step(s, "assemble")
  /\ IF currentPlatform(s) = host
     THEN /\ nodePath' = [nodePath EXCEPT ![s] = [src |-> "host", key |-> <<host, NoVersion>>]]
          /\ pc' = [pc EXCEPT ![s] = "copy"]
          /\ acqStart' = acqStart
     ELSE /\ nodePath' = nodePath
          /\ pc' = [pc EXCEPT ![s] = "resolve"]
          /\ acqStart' = [acqStart EXCEPT ![s] = cache]
  /\ UNCHANGED <<tempRoot, sweep, calls, mainFile, tools, exit, asked, warned, url, extraction, 
                 index, fetched, probe, host, hostVersion, opts, buildId, idx, results, pending, version,
                 workDirs, configs, blobs, cache, outFiles, failedAt, started,
                 cleaned, teardowns>>

\* An index as the distribution site serves it, newest entry first.
DefaultIndex ==
  << [parts |-> <<23, 1, 0>>, tag |-> "", lts |-> FALSE],
     [parts |-> <<20, 17, 0>>, tag |-> "", lts |-> TRUE] >>

\* What axios.get of the version index may give while a build runs: an
\* exception (no network, an error status, a body that is not a list of
\* entries), or the entries of the index.
IndexResponses ==
  { [ok |-> FALSE, data |-> <<>>],
    [ok |-> TRUE, data |-> index] }

\* downloadNodeBinary, first line: await getRecommendedNodeVersion().
AcqResolve(s) ==
  /\ pc[s] = "resolve"
  /\ Step(s, "resolve")
  /\ \E response \in IndexResponses :
       /\ version' = [version EXCEPT ![s] = getRecommendedNodeVersion(response)]
       /\ fetched' = [fetched EXCEPT ![s] = IF response.ok THEN "ok" ELSE "failed"]
  /\ pc' = [pc EXCEPT ![s] = "check"]
  /\ UNCHANGED <<tempRoot, sweep, calls, mainFile, tools, exit, asked, warned, url, extraction, 
                 index, probe, host, hostVersion, opts, buildId, idx, results, pending, nodePath,
                 workDirs, configs, blobs, cache, outFiles, failedAt, started,
                 cleaned, teardowns, acqStart>>

\* A lookup that never hits (sensitivity of C9).
cacheHitNever(c, key) == FALSE

\* fs.existsSync(executablePath): the only validity check of a cache entry.
cacheHit(c, key) == key \in DOMAIN c.bins

\* downloadNodeBinary up to the download: directories, the cache lookup, the URL.
AcqCheck(s) ==
  /\ pc[s] = "check"
  /\ Step(s, "check")
  /\ cache' = [cache EXCEPT !.root = TRUE, !.platDirs = @ \cup {currentPlatform(s)}]
  /\ IF cacheHit(cache, executablePath(s))
     THEN /\ nodePath' = [nodePath EXCEPT ![s] = [src |-> "cache", key |-> executablePath(s)]]
          /\ pc' = [pc EXCEPT ![s] = "copy"]
          /\ NoThrow
          /\ url' = url
     ELSE /\ nodePath' = nodePath
          /\ url' = [url EXCEPT ![s] = getNodeDownloadUrl(version[s], currentPlatform(s)).url]
          /\ IF getNodeDownloadUrl(version[s], currentPlatform(s)).ok
             THEN /\ pc' = [pc EXCEPT ![s] = "download"]
                  /\ NoThrow
             ELSE Throw(s, "unsupported")
  /\ UNCHANGED <<tempRoot, sweep, calls, mainFile, tools, exit, asked, warned, extraction, 
                 index, fetched, probe, host, hostVersion, opts, buildId, idx, results, version,
                 workDirs, configs, blobs, outFiles, started,
                 cleaned, teardowns, acqStart>>

\* downloadFile: the request, then the stream into the archive file.
AcqDownload(s) ==
  /\ pc[s] = "download"
  /\ Step(s, "download")
  /\ \E out \in {"ok", "fail", "partial"} :
       IF out = "ok" /\ currentPlatform(s) \in cache.platDirs
       THEN /\ cache' = [cache EXCEPT !.archives = Put(@, archivePath(s), "full")]
            /\ pc' = [pc EXCEPT ![s] = "extract"]
            /\ NoThrow
       ELSE /\ cache' = IF out = "partial" /\ currentPlatform(s) \in cache.platDirs
                        THEN [cache EXCEPT !.archives = Put(@, archivePath(s), "partial")]
                        ELSE cache
            /\ Throw(s, "download")
  /\ UNCHANGED <<tempRoot, sweep, calls, mainFile, tools, exit, asked, warned, url, extraction, 
                 index, fetched, probe, host, hostVersion, opts, buildId, idx, results, version, nodePath,
                 workDirs, configs, blobs, outFiles, started,
                 cleaned, teardowns, acqStart>>

\* Paths below the extraction directory: a top-level folder and the path inside
\* it.  Top is the extraction directory itself.
Top == [version |-> NoVersion, platform |-> ""]

\* `node-v${version}-${platform}-x64`
folderName(v, platform) == [version |-> v, platform |-> platform]

\* `${folderName}/bin/node`
nodeBinaryPath(v, platform) == [folder |-> folderName(v, platform), rel |-> "bin/node"]

\* path.join(extractDir, 'node')
finalPath == [folder |-> Top, rel |-> "node"]

\* The directories tar creates to write member m.
parentDirs(m) ==
  IF m.rel \in {"bin/node", "bin/npm"}
  THEN {[folder |-> m.folder, rel |-> ""], [folder |-> m.folder, rel |-> "bin"]}
  ELSE {[folder |-> m.folder, rel |-> ""]}

\* A filter that lets every member through (sensitivity of C29).
tarFilterAll(path, wanted) == TRUE

\* filter: (path) => path === nodeBinaryPath
tarFilter(path, wanted) == path = wanted

\* tar.extract({file, cwd: extractDir, filter}) into an empty directory: the
\* files and directories below extractDir afterwards.
tarExtract(members, wanted) ==
  LET written == {m \in members : tarFilter(m, wanted)}
  IN  [files |-> written, dirs |-> UNION {parentDirs(m) : m \in written}]

\* extractTarGz: extract, then move the binary up and remove its folder.
extractTarGz(members, v, platform) ==
  LET tree == tarExtract(members, nodeBinaryPath(v, platform))
      extractedPath == nodeBinaryPath(v, platform)
      folder == folderName(v, platform)
  IN  IF extractedPath \in tree.files
      THEN [files |-> {f \in (tree.files \ {extractedPath}) \cup {finalPath} :
                         f.folder # folder},
            dirs |-> {d \in tree.dirs : d.folder # folder}]
      ELSE tree

\* Archives a download may have produced for (v, platform): the wanted member
\* alone, among other members, absent, or nothing at all.
TarArchives(v, platform) ==
  LET wanted == nodeBinaryPath(v, platform)
      npm == [folder |-> folderName(v, platform), rel |-> "bin/npm"]
      readme == [folder |-> folderName(v, platform), rel |-> "README.md"]
      stray == [folder |-> folderName(v, "aix"), rel |-> "bin/node"]
  IN  { {wanted}, {wanted, npm, readme, stray}, {npm, stray}, {} }

\* mkdir versionDir, then extractNodeBinary (extractZip for win32, extractTarGz
\* otherwise).  "ok": the extractor resolves after writing what it found;
\* "nomember": extractZip resolves on 'end', no entry matched; "error": the
\* extractor rejects; "partial": extractZip rejects after it began to write
\* node.exe at the canonical path.
AcqExtract(s) ==
  /\ pc[s] = "extract"
  /\ Step(s, "extract")
  /\ \E out \in {"ok", "nomember", "error", "partial"},
        members \in IF currentPlatform(s) = "win32" THEN {{}}
                    ELSE TarArchives(version[s], currentPlatform(s)) :
       LET made == [cache EXCEPT !.verDirs = @ \cup {executablePath(s)}]
           there == archivePath(s) \in DOMAIN cache.archives
           isTar == currentPlatform(s) # "win32"
           tree == extractTarGz(members, version[s], currentPlatform(s))
           resolved == IF isTar THEN out = "ok" ELSE out \in {"ok", "nomember"}
           written == IF isTar THEN finalPath \in tree.files ELSE out = "ok"
       IN  IF resolved /\ there
           THEN /\ cache' = IF written
                            THEN [made EXCEPT !.bins = Put(@, executablePath(s),
                                        [content |-> "full", mode |-> "default"])]
                            ELSE made
                /\ extraction' = [extraction EXCEPT ![s] =
                     IF isTar THEN [ran |-> TRUE, members |-> members,
                                    files |-> tree.files, dirs |-> tree.dirs]
                     ELSE @]
                /\ pc' = [pc EXCEPT ![s] = "finish"]
                /\ NoThrow
           ELSE /\ cache' = IF out = "partial" /\ there /\ currentPlatform(s) = "win32"
                            THEN [made EXCEPT !.bins = Put(@, executablePath(s),
                                        [content |-> "partial", mode |-> "default"])]
                            ELSE made
                /\ extraction' = extraction
                /\ Throw(s, "extract")
  /\ UNCHANGED <<tempRoot, sweep, calls, mainFile, tools, exit, asked, warned, url, 
                 index, fetched, probe, host, hostVersion, opts, buildId, idx, results, version, nodePath,
                 workDirs, configs, blobs, outFiles, started,
                 cleaned, teardowns, acqStart>>

\* extractZip when the entry's read stream emits 'error' while it is piped
\* into node.exe: the stream has no 'error' listener and the write stream is
\* never closed, so the promise is neither resolved nor rejected -- the
\* process dies of the unhandled event or, if the embedding program traps it,
\* the await never ends.  Either way the session goes no further.
ExtractZipStreamError(s) ==
  /\ pc[s] = "extract"
  /\ currentPlatform(s) = "win32"
  /\ archivePath(s) \in DOMAIN cache.archives
  /\ Step(s, "extract")
  /\ cache' = [cache EXCEPT !.verDirs = @ \cup {executablePath(s)},
                            !.bins = Put(@, executablePath(s),
                                         [content |-> "partial", mode |-> "default"])]
  /\ pc' = [pc EXCEPT ![s] = "stalled"]
  /\ UNCHANGED <<tempRoot, sweep, calls, mainFile, tools, exit, asked, warned, url, extraction,
                 index, fetched, probe, host, hostVersion, opts, buildId, idx, results,
                 pending, version, nodePath, workDirs, configs, blobs, outFiles,
                 failedAt, started, cleaned, teardowns, acqStart>>

\* The binary left with the mode it was extracted with (sensitivity of C10).
chmodSkipped(bin, platform) == bin

\* fs.chmodSync(executablePath, '755') for a target other than win32.
chmod(bin, platform) == IF platform # "win32" THEN [bin EXCEPT !.mode = "755"] ELSE bin

\* fs.unlinkSync(archivePath)
unlink(archives, path) == Remove(archives, path)

\* The extracted binary taken for present without looking (sensitivity of C12).
extractedAssumed(c, key) == TRUE

\* fs.existsSync(executablePath) after extractNodeBinary resolved.
extracted(c, key) == key \in DOMAIN c.bins

\* downloadNodeBinary after the extraction: remove the archive, check that the
\* binary exists, make it executable, return its path.
AcqFinish(s) ==
  /\ pc[s] = "finish"
  /\ Step(s, "finish")
  /\ extraction' = [extraction EXCEPT ![s] = NoExtraction]
  /\ IF archivePath(s) \notin DOMAIN cache.archives
     THEN /\ cache' = cache
          /\ nodePath' = nodePath
          /\ Throw(s, "extract")
     ELSE IF ~extracted(cache, executablePath(s))
     THEN /\ cache' = [cache EXCEPT !.archives = unlink(@, archivePath(s))]
          /\ nodePath' = nodePath
          /\ Throw(s, "extract")
     ELSE IF currentPlatform(s) # "win32" /\ executablePath(s) \notin DOMAIN cache.bins
     THEN /\ cache' = [cache EXCEPT !.archives = unlink(@, archivePath(s))]
          /\ nodePath' = nodePath
          /\ Throw(s, "chmod")
     ELSE /\ cache' = [cache EXCEPT
                         !.archives = unlink(@, archivePath(s)),
                         !.bins = IF executablePath(s) \in DOMAIN @
                                  THEN [@ EXCEPT ![executablePath(s)] =
                                          chmod(@, currentPlatform(s))]
                                  ELSE @]
          /\ nodePath' = [nodePath EXCEPT ![s] = [src |-> "cache", key |-> executablePath(s)]]
          /\ pc' = [pc EXCEPT ![s] = "copy"]
          /\ NoThrow
  /\ UNCHANGED <<tempRoot, sweep, calls, mainFile, tools, exit, asked, warned, url, 
                 index, fetched, probe, host, hostVersion, opts, buildId, idx, results, version,
                 workDirs, configs, blobs, outFiles, started,
                 cleaned, teardowns, acqStart>>

executableName(s) == getExecutableName(opts[s].output, currentPlatform(s))

\* The subprocesses whose failure is only logged: the signature removal
\* ("strip": codesign --remove-signature, signtool remove) and the signing
\* ("sign": codesign --sign, signtool sign).  Whether they succeed depends on
\* the host (the tool is installed and accepts the file) and has no effect on
\* a build other than the warning.
SigningTools == {"strip", "sign"}

\* createExecutable after the base binary is known: copyFileSync to the output
\* name, then the best-effort removal of the signature (darwin, win32).
Copy(s) ==
  /\ pc[s] = "copy"
  /\ LET target == copyTarget(executableName(s), currentPlatform(s))
         src == nodePath[s]
         exists == src.src = "host" \/ src.key \in DOMAIN cache.bins
     IN  \E io \in BOOLEAN :
           IF io /\ exists
           THEN /\ outFiles' = Put(outFiles, target,
                     [runtime |-> src.key[1],
                      intact |-> (src.src = "host" \/ cache.bins[src.key].content = "full"),
                      blob |-> NoBlob, effective |-> FALSE])
                /\ pc' = [pc EXCEPT ![s] = "inject"]
                /\ NoThrow
                /\ trace' = [trace EXCEPT ![s] =
                     IF currentPlatform(s) \in {"darwin", "win32"}
                     THEN @ \o <<"copy", "strip">> ELSE Append(@, "copy")]
                /\ warned' = [warned EXCEPT ![s] =
                     IF currentPlatform(s) \in {"darwin", "win32"} /\ "strip" \notin tools
                     THEN @ \cup {"strip"} ELSE @]
           ELSE /\ outFiles' = outFiles
                /\ Throw(s, "copy")
                /\ Step(s, "copy")
                /\ warned' = warned
  /\ UNCHANGED <<tempRoot, sweep, calls, mainFile, tools, exit, asked, url, extraction, 
                 index, fetched, probe, host, hostVersion, opts, buildId, idx, results, version, nodePath,
                 workDirs, configs, blobs, cache, started,
                 cleaned, teardowns, acqStart>>

\* No target signed (sensitivity of C31).
afterInjectNoSign(platform) ==
  IF platform = "win32" THEN "verify" ELSE "cleanup"

\* Signing attempted for every target that is not verified (sensitivity of C30).
afterInjectSignAll(platform) ==
  IF platform = "win32" THEN "verify" ELSE "sign"

\* injectBlob returning without the win32 verification (sensitivity of C18).
afterInjectNoVerify(platform) ==
  IF platform \in {"win32", "darwin"} THEN "sign" ELSE "cleanup"

\* What follows a successful injector run inside injectBlob / buildForPlatform.
afterInject(platform) ==
  IF platform = "win32" THEN "verify"
  ELSE IF platform = "darwin" THEN "sign" ELSE "cleanup"

\* injectBlob: the injector subprocess.  "silent": it exits zero but the
\* executable still behaves as the bare runtime (win32).
InjectBlob(s) ==
  /\ pc[s] = "inject"
  /\ Step(s, "inject")
  /\ \E out \in {"ok", "silent", "fail"} :
       LET name == executableName(s)
           ready == /\ name \in DOMAIN outFiles
                    /\ blobPath(s) \in DOMAIN blobs
       IN  IF out = "ok" /\ ready
           THEN /\ outFiles' = [outFiles EXCEPT ![name].blob = blobPath(s),
                                                ![name].effective = TRUE]
                /\ pc' = [pc EXCEPT ![s] = afterInject(currentPlatform(s))]
                /\ NoThrow
           ELSE IF out = "silent" /\ ready /\ currentPlatform(s) = "win32"
           THEN /\ outFiles' = [outFiles EXCEPT ![name].blob = blobPath(s)]
                /\ pc' = [pc EXCEPT ![s] = afterInject(currentPlatform(s))]
                /\ NoThrow
           ELSE /\ outFiles' = outFiles
                /\ Throw(s, "inject")
  /\ UNCHANGED <<tempRoot, sweep, calls, mainFile, tools, exit, asked, warned, url, extraction, 
                 index, fetched, probe, host, hostVersion, opts, buildId, idx, results, version, nodePath,
                 workDirs, configs, blobs, cache, started,
                 cleaned, teardowns, acqStart>>

\* How execSync of the --help run may end: "ran": exit status zero within
\* the timeout, the output is returned; "error": it could not be run or exited
\* non-zero; "timeout": killed after timeout: 5000.  In the last two execSync
\* throws an error of its own.
ProbeOutcomes == {"ran", "error", "timeout"}

\* verifyWindowsExecutable whose catch block swallows the 'REPL mode' error
\* as well (sensitivity of C19).
VerifyLenient(s) ==
  /\ pc[s] = "verify"
  /\ Step(s, "verify")
  /\ \E run \in ProbeOutcomes : probe' = [probe EXCEPT ![s] = run]
  /\ pc' = [pc EXCEPT ![s] = "sign"]
  /\ NoThrow
  /\ UNCHANGED <<tempRoot, sweep, calls, mainFile, tools, exit, asked, warned, url, extraction, 
                 index, fetched, host, hostVersion, opts, buildId, idx, results, version,
                 nodePath, workDirs, configs, blobs, cache, outFiles, started,
                 cleaned, teardowns, acqStart>>

\* verifyWindowsExecutable: run the executable with --help and look for the
\* banner in the returned output; the catch block swallows every error
\* except the 'REPL mode' one thrown here.
Verify(s) ==
  /\ pc[s] = "verify"
  /\ Step(s, "verify")
  /\ \E run \in ProbeOutcomes :
       LET name == executableName(s)
           banner == name \in DOMAIN outFiles /\ ~outFiles[name].effective
       IN  /\ probe' = [probe EXCEPT ![s] = run]
           /\ IF run = "ran" /\ name \in DOMAIN outFiles /\ banner
              THEN Throw(s, "verify")
              ELSE /\ pc' = [pc EXCEPT ![s] = "sign"]
                   /\ NoThrow
  /\ UNCHANGED <<tempRoot, sweep, calls, mainFile, tools, exit, asked, warned, url, extraction, 
                 index, fetched, host, hostVersion, opts, buildId, idx, results, version, nodePath,
                 workDirs, configs, blobs, cache, outFiles, started,
                 cleaned, teardowns, acqStart>>

\* signExecutable letting the error of the signing tool through (sensitivity of C21).
SignFatal(s) ==
  /\ pc[s] = "sign"
  /\ Step(s, "sign")
  /\ IF "sign" \in tools THEN pc' = [pc EXCEPT ![s] = "cleanup"] /\ NoThrow
     ELSE Throw(s, "sign")
  /\ UNCHANGED <<tempRoot, sweep, calls, mainFile, tools, exit, asked, url, extraction, warned,
                 index, fetched, probe, host, hostVersion, opts, buildId, idx, results,
                 version, nodePath, workDirs, configs, blobs, cache, outFiles,
                 started, cleaned, teardowns, acqStart>>

\* signExecutable: best effort, a failure is only a warning.
Sign(s) ==
  /\ pc[s] = "sign"
  /\ Step(s, "sign")
  /\ warned' = [warned EXCEPT ![s] = IF "sign" \in tools THEN @ ELSE @ \cup {"sign"}]
  /\ pc' = [pc EXCEPT ![s] = "cleanup"]
  /\ UNCHANGED <<tempRoot, sweep, calls, mainFile, tools, exit, asked, url, extraction, 
                 index, fetched, probe, host, hostVersion, opts, buildId, idx, results, pending, version,
                 nodePath, workDirs, configs, blobs, cache, outFiles, failedAt,
                 started, cleaned, teardowns, acqStart>>

\* Outcomes of unlinkSync on a file the session wrote itself: the file is
\* taken to be removable (the catch branch of cleanup() only logs a warning).
UnlinkOutcomes == {TRUE}

\* cleanup() leaving the file in place (sensitivity of C6).
cleanupFileKept(files, path, ok) == files

\* cleanup([configPath, blobPath]) on one file: unlink if it exists; a failed
\* unlink is only a warning.
cleanupFile(files, path, ok) ==
  IF path \in DOMAIN files /\ ok THEN Remove(files, path) ELSE files

\* this.cleanup([configPath, blobPath]) of buildForPlatform, on the return path
\* and in the catch block, then the result reaches build().
CleanupPlatform(s) ==
  /\ pc[s] = "cleanup"
  /\ \E okConfig \in UnlinkOutcomes, okBlob \in UnlinkOutcomes :
       /\ configs' = cleanupFile(configs, configPath(s), okConfig)
       /\ blobs' = cleanupFile(blobs, blobPath(s), okBlob)
  /\ cleaned' = [cleaned EXCEPT ![s] = @ \cup {idx[s]}]
  /\ IF pending[s] = "none"
     THEN Finish(s, successResult(currentPlatform(s), executableName(s), buildId[s]))
     ELSE Finish(s, failedResult(currentPlatform(s), pending[s]))
  /\ UNCHANGED <<tempRoot, sweep, calls, mainFile, tools, exit, asked, 
                 index, host, hostVersion, opts, buildId,
                 workDirs, cache, outFiles, failedAt, started, teardowns>>

WithoutDir(files, id) == [k \in {x \in DOMAIN files : x[1] # id} |-> files[k]]

\* build() returning without its finally block (sensitivity of C3).
TeardownSkipped(s) ==
  /\ pc[s] = "teardown"
  /\ pc' = [pc EXCEPT ![s] = "returned"]
  /\ UNCHANGED <<tempRoot, sweep, calls, mainFile, tools, exit, asked, warned, url, extraction, 
                 index, fetched, probe, host, hostVersion, opts, buildId, idx, results, pending, version,
                 nodePath, workDirs, configs, blobs, cache, outFiles, trace, failedAt,
                 started, cleaned, teardowns, acqStart>>

\* The finally block of build(): cleanupTempDir removes the workspace directory
\* recursively; a failed removal is only a warning.  Then build() returns.
Teardown(s) ==
  /\ pc[s] = "teardown"
  /\ \E ok \in BOOLEAN :
       IF tempBuildDir(s) \in workDirs
       THEN IF ok
            THEN /\ workDirs' = workDirs \ {tempBuildDir(s)}
                 /\ configs' = WithoutDir(configs, tempBuildDir(s))
                 /\ blobs' = WithoutDir(blobs, tempBuildDir(s))
                 /\ teardowns' = [teardowns EXCEPT ![s] = Append(@, "removed")]
            ELSE /\ UNCHANGED <<workDirs, configs, blobs>>
                 /\ teardowns' = [teardowns EXCEPT ![s] = Append(@, "failed")]
       ELSE /\ UNCHANGED <<workDirs, configs, blobs>>
            /\ teardowns' = [teardowns EXCEPT ![s] = Append(@, "absent")]
  /\ pc' = [pc EXCEPT ![s] = "returned"]
  /\ UNCHANGED <<tempRoot, sweep, calls, mainFile, tools, exit, asked, warned, url, extraction, 
                 index, fetched, probe, host, hostVersion, opts, buildId, idx, results, pending, version,
                 nodePath, cache, outFiles, trace, failedAt, started, cleaned, acqStart>>

\* A program calls isVersionGreaterOrEqual(current, required) on two version
\* strings (the method uses nothing of the instance).
Compare ==
  /\ asked.answer = "none"
  /\ asked.current # <<>>
  /\ asked' = [asked EXCEPT !.answer =
       IF isVersionGreaterOrEqual(splitNumbers(asked.current), splitNumbers(asked.required))
       THEN "true" ELSE "false"]
  /\ UNCHANGED <<tempRoot, sweep, calls, mainFile, tools, exit, warned, url, extraction,
                 index, fetched, probe, host, hostVersion, opts, buildId, pc, idx, results,
                 pending, version, nodePath, workDirs, configs, blobs, cache, outFiles,
                 trace, failedAt, started, cleaned, teardowns, acqStart>>

\* ------------------------------------------------------ the workspace sweep

\* The prefix generateBuildId gives every workspace name: `build-`.
BuildPrefix == <<"b", "u", "i", "l", "d", "-">>

\* The name of the workspace directory of build id `id`, as characters: the
\* prefix, then the timestamp and the random part (kept as one piece).
entryName(id) == BuildPrefix \o <<id>>

\* String.prototype.startsWith on character sequences.
startsWith(name, prefix) ==
  /\ Len(name) >= Len(prefix)
  /\ SubSeq(name, 1, Len(prefix)) = prefix

\* fs.readdirSync(tempDir): the workspaces of the sessions and the other entries.
readdirSync == tempRoot \cup {entryName(id) : id \in workDirs}

\* A loop that the first failed removal ends (sensitivity of C33).
sweepRemovedAbort(listed, failed) == IF failed = {} THEN listed ELSE {}

\* buildDirs.forEach with its inner try/catch: every listed entry whose rmSync
\* did not fail is removed.
sweepRemoved(listed, failed) == listed \ failed

MaxSweeps == 1

\* A sweep that clears the runtime cache as well (sensitivity of C34).
SweepWithCache ==
  /\ sweep.runs < MaxSweeps
  /\ \E readable \in BOOLEAN :
       LET listed == IF readable
                     THEN {n \in readdirSync : startsWith(n, BuildPrefix)}
                     ELSE {}
       IN  \E failed \in SUBSET listed :
             LET removed == sweepRemoved(listed, failed)
                 gone == {id \in workDirs : entryName(id) \in removed}
             IN  /\ tempRoot' = tempRoot \ removed
                 /\ workDirs' = workDirs \ gone
                 /\ configs' = [k \in {x \in DOMAIN configs : x[1] \notin gone} |-> configs[k]]
                 /\ blobs' = [k \in {x \in DOMAIN blobs : x[1] \notin gone} |-> blobs[k]]
                 /\ sweep' = [runs |-> sweep.runs + 1, listed |-> listed,
                              removed |-> removed, failed |-> failed, raised |-> FALSE]
  /\ cache' = EmptyCache
  /\ UNCHANGED <<calls, mainFile, tools, exit, asked, warned, url, extraction,
                 index, fetched, probe, host, hostVersion, opts, buildId, pc, idx, results,
                 pending, version, nodePath, outFiles, trace, failedAt,
                 started, cleaned, teardowns, acqStart>>

\* NodePackageBuilder.cleanupAllTempDirs(), called by the cleanup command or by
\* any program: list the temp root, keep the names that start with `build-`,
\* remove each recursively.  A failed removal is caught per entry, a failed
\* listing by the outer try; both only log a warning.  (A temp root that does
\* not exist is skipped, which leaves the same state as an empty listing.)
Sweep ==
  /\ sweep.runs < MaxSweeps
  /\ \E readable \in BOOLEAN :
       LET listed == IF readable
                     THEN {n \in readdirSync : startsWith(n, BuildPrefix)}
                     ELSE {}
       IN  \E failed \in SUBSET listed :
             LET removed == sweepRemoved(listed, failed)
                 gone == {id \in workDirs : entryName(id) \in removed}
             IN  /\ tempRoot' = tempRoot \ removed
                 /\ workDirs' = workDirs \ gone
                 /\ configs' = [k \in {x \in DOMAIN configs : x[1] \notin gone} |-> configs[k]]
                 /\ blobs' = [k \in {x \in DOMAIN blobs : x[1] \notin gone} |-> blobs[k]]
                 /\ sweep' = [runs |-> sweep.runs + 1, listed |-> listed,
                              removed |-> removed, failed |-> failed, raised |-> FALSE]
  /\ UNCHANGED <<calls, mainFile, tools, exit, asked, warned, url, extraction,
                 index, fetched, probe, host, hostVersion, opts, buildId, pc, idx, results,
                 pending, version, nodePath, cache, outFiles, trace, failedAt,
                 started, cleaned, teardowns, acqStart>>

\* --------------------------------------------------- build() called again

MaxCalls == 2          \* most build() calls on one session

\* How the finally block of the build() call that has just returned ended.
lastTeardown(s) ==
  IF teardowns[s] = <<>> THEN "none" ELSE teardowns[s][Len(teardowns[s])]

\* A build() that creates the workspace again before its loop (sensitivity of C39).
RebuildEnsureDir(s) ==
  /\ pc[s] = "returned"
  /\ Len(calls[s]) < MaxCalls - 1
  /\ calls' = [calls EXCEPT ![s] = Append(@, lastTeardown(s))]
  /\ workDirs' = workDirs \cup {tempBuildDir(s)}
  /\ results' = [results EXCEPT ![s] = <<>>]
  /\ failedAt' = [failedAt EXCEPT ![s] = [i \in 1..Len(opts[s].platforms) |-> "none"]]
  /\ started' = [started EXCEPT ![s] = 0]
  /\ cleaned' = [cleaned EXCEPT ![s] = {}]
  /\ teardowns' = [teardowns EXCEPT ![s] = <<>>]
  /\ idx' = [idx EXCEPT ![s] = 1]
  /\ pc' = [pc EXCEPT ![s] = IF opts[s].platforms = <<>> THEN "teardown" ELSE "config"]
  /\ UNCHANGED <<tempRoot, sweep, mainFile, tools, exit, asked, warned, url, extraction,
                 index, fetched, probe, host, hostVersion, opts, buildId, pending, version,
                 nodePath, configs, blobs, cache, outFiles, trace, acqStart>>

\* build() is called on a session whose earlier build() has returned: the same
\* method body runs again, on the instance as the first call left it (the
\* workspace is created by the constructor only).
Rebuild(s) ==
  /\ pc[s] = "returned"
  /\ Len(calls[s]) < MaxCalls - 1
  /\ calls' = [calls EXCEPT ![s] = Append(@, lastTeardown(s))]
  /\ workDirs' = workDirs
  /\ results' = [results EXCEPT ![s] = <<>>]
  /\ failedAt' = [failedAt EXCEPT ![s] = [i \in 1..Len(opts[s].platforms) |-> "none"]]
  /\ started' = [started EXCEPT ![s] = 0]
  /\ cleaned' = [cleaned EXCEPT ![s] = {}]
  /\ teardowns' = [teardowns EXCEPT ![s] = <<>>]
  /\ idx' = [idx EXCEPT ![s] = 1]
  /\ pc' = [pc EXCEPT ![s] = IF opts[s].platforms = <<>> THEN "teardown" ELSE "config"]
  /\ UNCHANGED <<tempRoot, sweep, mainFile, tools, exit, asked, warned, url, extraction,
                 index, fetched, probe, host, hostVersion, opts, buildId, pending, version,
                 nodePath, configs, blobs, cache, outFiles, trace, acqStart>>

\* ------------------------------------------------------- the build command
\* (bin/build.js, kept as src/CHANGELOG.md)

\* NodePackageBuilder.getSupportedPlatforms()
getSupportedPlatforms == <<"linux", "darwin", "win32">>

\* Array.prototype.includes
includes(seq, x) == \E i \in 1..Len(seq) : seq[i] = x

\* fs.existsSync(mainFile)
existsSync(file) == file # "missing"

\* The action of the build command up to `new NodePackageBuilder`: the main
\* file must exist, every platform must be a supported one, and --assets must
\* parse as JSON; otherwise process.exit(1).
CliValidate(s) ==
  /\ pc[s] = "cli"
  /\ \E assetsParse \in BOOLEAN :
       IF /\ existsSync(mainFile)
          /\ \A i \in 1..Len(opts[s].platforms) :
               includes(getSupportedPlatforms, opts[s].platforms[i])
          /\ assetsParse
       THEN pc' = [pc EXCEPT ![s] = "new"] /\ exit' = exit
       ELSE pc' = [pc EXCEPT ![s] = "exited"] /\ exit' = [exit EXCEPT ![s] = "1"]
  /\ UNCHANGED <<tempRoot, sweep, calls, mainFile, tools, asked, warned, url, extraction,
                 index, fetched, probe, host, hostVersion, opts, buildId, idx, results,
                 pending, version, nodePath, workDirs, configs, blobs, cache, outFiles,
                 trace, failedAt, started, cleaned, teardowns, acqStart>>

\* results.filter(r => r.success).length
successCount(res) == Cardinality({i \in 1..Len(res) : res[i].success})

\* An exit code that demands every platform to succeed (sensitivity of C23).
exitCodeStrict(res) == IF successCount(res) < Len(res) \/ Len(res) = 0 THEN "1" ELSE "0"

\* if (successCount === 0) process.exit(1); otherwise the process ends normally.
exitCode(res) == IF successCount(res) = 0 THEN "1" ELSE "0"

\* The end of the action: build() returned its results, or the constructor
\* threw and the catch block exits with 1.
CliExit(s) ==
  /\ exit[s] = "running"
  /\ pc[s] \in {"returned", "rejected"}
  /\ exit' = [exit EXCEPT ![s] = IF pc[s] = "returned" THEN exitCode(results[s]) ELSE "1"]
  /\ pc' = [pc EXCEPT ![s] = "exited"]
  /\ UNCHANGED <<tempRoot, sweep, calls, mainFile, tools, asked, warned, url, extraction,
                 index, fetched, probe, host, hostVersion, opts, buildId, idx, results,
                 pending, version, nodePath, workDirs, configs, blobs, cache, outFiles,
                 trace, failedAt, started, cleaned, teardowns, acqStart>>

\* ------------------------------------------------------------ specification
RECURSIVE SeqsUpTo(_, _)
SeqsUpTo(S, n) ==
  IF n = 0 THEN {<<>>}
  ELSE LET shorter == SeqsUpTo(S, n - 1)
       IN  shorter \cup {Append(q, x) : q \in shorter, x \in S}

PlatformLists == SeqsUpTo(RequestedPlatforms, MaxPlatforms) \ {<<>>}

Options(outputs, flags, lists) ==
  [main : {"index.js"}, output : outputs, disableExperimentalSEAWarning : {TRUE},
   useSnapshot : flags, useCodeCache : flags, assets : {{}}, platforms : lists]

NoOptions ==
  [main |-> "index.js", output |-> <<"a">>, disableExperimentalSEAWarning |-> TRUE,
   useSnapshot |-> FALSE, useCodeCache |-> FALSE, assets |-> {}, platforms |-> <<>>]

\* The sessions in `api` are about to be constructed by a program using the
\* class, those in `cli` by a build command that has just started; the others
\* do not exist.
InitProcesses(api, cli) ==
  /\ pc = [s \in Sessions |-> IF s \in cli THEN "cli"
                               ELSE IF s \in api THEN "new" ELSE "absent"]
  /\ exit = [s \in Sessions |-> IF s \in cli THEN "running" ELSE "api"]
  /\ buildId = [s \in Sessions |-> "unset"]
  /\ idx = [s \in Sessions |-> 1]
  /\ results = [s \in Sessions |-> <<>>]
  /\ pending = [s \in Sessions |-> "none"]
  /\ version = [s \in Sessions |-> NoVersion]
  /\ nodePath = [s \in Sessions |-> NoPath]
  /\ trace = [s \in Sessions |-> <<>>]
  /\ failedAt = [s \in Sessions |-> <<>>]
  /\ started = [s \in Sessions |-> 0]
  /\ cleaned = [s \in Sessions |-> {}]
  /\ teardowns = [s \in Sessions |-> <<>>]
  /\ acqStart = [s \in Sessions |-> EmptyCache]
  /\ fetched = [s \in Sessions |-> "none"]
  /\ probe = [s \in Sessions |-> "none"]
  /\ warned = [s \in Sessions |-> {}]
  /\ url = [s \in Sessions |-> NoUrl]
  /\ extraction = [s \in Sessions |-> NoExtraction]
  /\ calls = [s \in Sessions |-> <<>>]
  /\ sweep = NoSweep

\* The sessions in `active` are about to be constructed; the others do not exist.
InitSessions(active) == InitProcesses(active, {})

InitDisk ==
  /\ tempRoot = {}
  /\ workDirs = {}
  /\ configs = <<>>
  /\ blobs = <<>>
  /\ outFiles = <<>>

V1 == [parts |-> <<20, 18, 0>>, tag |-> ""]
V2 == [parts |-> <<20, 17, 0>>, tag |-> ""]

\* The hosts of the main specification: one that verifies and signs its own
\* platform and one that does neither.
BuildHosts == {"linux", "win32"}

\* One session on a host whose cache is cold or, on the linux host, holds
\* entries of earlier builds.
Init ==
  /\ host \in BuildHosts
  /\ hostVersion = <<20, 18, 0>>
  /\ InitSessions({"s1"})
  /\ InitDisk
  /\ mainFile = "file"
  /\ tools = SigningTools
  /\ asked = NoQuestion
  /\ index = DefaultIndex
  /\ \E o \in Options({<<"a">>}, {FALSE}, PlatformLists) :
       opts = [s \in Sessions |-> IF s = "s1" THEN o ELSE NoOptions]
  /\ cache \in IF host = "linux"
              THEN {EmptyCache, WarmCache((SupportedPlatforms \ {host}) \X {V1})}
              ELSE {EmptyCache}

\* One session building a single platform; the options vary.
OutputSamples == {<<"a">>, <<"a", ".", "e", "x", "e">>, <<"a", ".", "e", "x">>}

SingleLists == {<<p>> : p \in RequestedPlatforms}

InitOptions ==
  /\ host \in SupportedPlatforms
  /\ hostVersion = <<20, 18, 0>>
  /\ InitSessions({"s1"})
  /\ InitDisk
  /\ mainFile = "file"
  /\ tools = SigningTools
  /\ asked = NoQuestion
  /\ index = DefaultIndex
  /\ \E o \in Options(OutputSamples, BOOLEAN, SingleLists) :
       opts = [s \in Sessions |-> IF s = "s1" THEN o ELSE NoOptions]
  /\ cache = EmptyCache

\* One session building a single platform; the output name varies over every
\* character sequence of up to MaxNameLen characters.
Names == SeqsUpTo(Chars, MaxNameLen)

InitNames ==
  /\ host = "linux"
  /\ hostVersion = <<20, 18, 0>>
  /\ InitSessions({"s1"})
  /\ InitDisk
  /\ mainFile = "file"
  /\ tools = SigningTools
  /\ asked = NoQuestion
  /\ index = DefaultIndex
  /\ \E o \in Options(Names, {FALSE}, {<<"win32">>, <<"linux">>}) :
       opts = [s \in Sessions |-> IF s = "s1" THEN o ELSE NoOptions]
  /\ cache = WarmCache({"win32"} \X {V1})

\* One session on a host inside or outside the supported platforms, cold cache.
TargetHosts == {"darwin", "freebsd"}

InitTargets ==
  /\ host \in TargetHosts
  /\ hostVersion = <<20, 18, 0>>
  /\ InitSessions({"s1"})
  /\ InitDisk
  /\ mainFile = "file"
  /\ tools = SigningTools
  /\ asked = NoQuestion
  /\ index = DefaultIndex
  /\ \E o \in Options({<<"a">>}, {FALSE}, PlatformLists) :
       opts = [s \in Sessions |-> IF s = "s1" THEN o ELSE NoOptions]
  /\ cache = EmptyCache

\* Entries a version index may hold: version, pre-release tag, lts flag.
IndexEntries ==
  { [parts |-> <<19, 8, 0>>, tag |-> "", lts |-> FALSE],
    [parts |-> <<23, 0, 0>>, tag |-> "", lts |-> FALSE],
    [parts |-> <<20, 18, 0>>, tag |-> "rc", lts |-> FALSE],
    [parts |-> <<22, 1, 0>>, tag |-> "beta", lts |-> FALSE],
    [parts |-> <<20, 18, 0>>, tag |-> "", lts |-> TRUE],
    [parts |-> <<20, 16, 0>>, tag |-> "", lts |-> TRUE],
    [parts |-> <<20, 11, 0>>, tag |-> "", lts |-> TRUE],
    [parts |-> <<20, 12, 0>>, tag |-> "", lts |-> TRUE],
    [parts |-> <<21, 7, 0>>, tag |-> "", lts |-> FALSE],
    [parts |-> <<22, 11, 0>>, tag |-> "", lts |-> TRUE] }

Indexes == SeqsUpTo(IndexEntries, MaxIndexLen)

\* One cross-platform build against every index of up to MaxIndexLen entries.
InitResolver ==
  /\ host = "linux"
  /\ hostVersion = <<20, 18, 0>>
  /\ InitSessions({"s1"})
  /\ InitDisk
  /\ mainFile = "file"
  /\ tools = SigningTools
  /\ asked = NoQuestion
  /\ index \in Indexes
  /\ \E o \in Options({<<"a">>}, {FALSE}, {<<"win32">>}) :
       opts = [s \in Sessions |-> IF s = "s1" THEN o ELSE NoOptions]
  /\ cache = EmptyCache

\* What the entry-point path may refer to.
MainFiles == {"file", "missing", "dir"}

CliLists ==
  {<<"linux">>, <<"win32">>, <<"freebsd">>, <<"linux", "darwin">>, <<"linux", "freebsd">>}

\* One session, created by the build command ("running") or by a program that
\* uses the class directly ("api"), for every kind of entry-point path.
InitCli ==
  /\ host = "linux"
  /\ hostVersion \in {<<20, 18, 0>>, <<18, 20, 0>>}
  /\ \E use \in {"api", "cli"} :
       InitProcesses(IF use = "api" THEN {"s1"} ELSE {}, IF use = "cli" THEN {"s1"} ELSE {})
  /\ InitDisk
  /\ mainFile \in MainFiles
  /\ tools = SigningTools
  /\ asked = NoQuestion
  /\ index = DefaultIndex
  /\ \E o \in Options({<<"a">>}, {FALSE}, CliLists) :
       opts = [s \in Sessions |-> IF s = "s1" THEN o ELSE NoOptions]
  /\ cache = EmptyCache

\* Two sessions of two processes on one host, started at the same time, each
\* building the same single platform.
InitTwo ==
  /\ host = "linux"
  /\ hostVersion = <<20, 18, 0>>
  /\ InitSessions(Sessions)
  /\ InitDisk
  /\ mainFile = "file"
  /\ tools = SigningTools
  /\ asked = NoQuestion
  /\ index = DefaultIndex
  /\ \E o \in Options({<<"a">>}, {FALSE}, {<<"linux">>, <<"darwin">>, <<"win32">>}) :
       opts = [s \in Sessions |-> o]
  /\ cache = EmptyCache

\* One session building one platform on a cold cache, on a host where any of
\* the signing tools may fail.
InitStreams ==
  /\ host = "linux"
  /\ hostVersion = <<20, 18, 0>>
  /\ InitSessions({"s1"})
  /\ InitDisk
  /\ mainFile = "file"
  /\ tools \in SUBSET SigningTools
  /\ asked = NoQuestion
  /\ index = DefaultIndex
  /\ \E o \in Options({<<"a">>}, {FALSE}, SingleLists) :
       opts = [s \in Sessions |-> IF s = "s1" THEN o ELSE NoOptions]
  /\ cache = EmptyCache

\* Version strings: up to MaxParts components out of a few digit strings, and
\* the versions of the documented examples.
ComponentTexts == {<<0>>, <<9>>, <<1, 9>>, <<2, 0>>}

VersionTexts ==
  (SeqsUpTo(ComponentTexts, MaxParts) \ {<<>>})
    \cup {<< <<1, 9>>, <<8>>, <<9>> >>, << <<2, 0>>, <<1>>, <<0>> >>, << <<1, 9>>, <<0, 9>> >>}

\* A host whose process.version is any of the version strings creates a
\* session, and a program compares that version with any other.
InitVersions ==
  /\ host = "linux"
  /\ InitSessions({"s1"})
  /\ InitDisk
  /\ mainFile = "file"
  /\ tools = SigningTools
  /\ \E current \in VersionTexts, required \in VersionTexts :
       /\ hostVersion = splitNumbers(current)
       /\ asked = [current |-> current, required |-> required, answer |-> "none"]
  /\ index = DefaultIndex
  /\ \E o \in Options({<<"a">>}, {FALSE}, {<<"linux">>}) :
       opts = [s \in Sessions |-> IF s = "s1" THEN o ELSE NoOptions]
  /\ cache = EmptyCache

\* Entries the temp root may hold besides the workspaces of the sessions: the
\* workspace a killed process left, and names that only resemble the prefix.
OtherEntries ==
  { BuildPrefix \o <<"0-old">>,
    <<"b", "u", "i", "l", "d">>,
    <<"x">> \o BuildPrefix }

SweepLists == {<<"linux">>, <<"win32">>, <<"darwin", "darwin">>}

\* One session, and a sweep that some process may run at any moment.
InitSweep ==
  /\ host = "linux"
  /\ hostVersion = <<20, 18, 0>>
  /\ InitSessions({"s1"})
  /\ tempRoot \in {{}, OtherEntries}
  /\ workDirs = {}
  /\ configs = <<>>
  /\ blobs = <<>>
  /\ outFiles = <<>>
  /\ mainFile = "file"
  /\ tools = SigningTools
  /\ asked = NoQuestion
  /\ index = DefaultIndex
  /\ \E o \in Options({<<"a">>}, {FALSE}, SweepLists) :
       opts = [s \in Sessions |-> IF s = "s1" THEN o ELSE NoOptions]
  /\ cache = EmptyCache

ReuseLists == {<<"linux">>, <<"win32">>, <<"linux", "darwin">>}

\* One session whose build() may be called again after it returned.
InitReuse ==
  /\ host = "linux"
  /\ hostVersion = <<20, 18, 0>>
  /\ InitSessions({"s1"})
  /\ InitDisk
  /\ mainFile = "file"
  /\ tools = SigningTools
  /\ asked = NoQuestion
  /\ index = DefaultIndex
  /\ \E o \in Options({<<"a">>}, {FALSE}, ReuseLists) :
       opts = [s \in Sessions |-> IF s = "s1" THEN o ELSE NoOptions]
  /\ cache = EmptyCache

Next ==
  \E s \in Sessions :
    \/ Construct(s)
    \/ BuildStart(s)
    \/ CreateSeaConfig(s)
    \/ GenerateBlob(s)
    \/ Assemble(s)
    \/ AcqResolve(s)
    \/ AcqCheck(s)
    \/ AcqDownload(s)
    \/ AcqExtract(s)
    \/ AcqFinish(s)
    \/ Copy(s)
    \/ InjectBlob(s)
    \/ Verify(s)
    \/ Sign(s)
    \/ CleanupPlatform(s)
    \/ Teardown(s)

Spec == Init /\ [][Next]_vars

SpecOptions == InitOptions /\ [][Next]_vars

SpecNames == InitNames /\ [][Next]_vars

SpecTargets == InitTargets /\ [][Next]_vars

SpecResolver == InitResolver /\ [][Next]_vars

SpecTwo == InitTwo /\ [][Next]_vars

SpecSingle == InitStreams /\ [][Next]_vars

\* The class with every way its stream handlers can end.  Each external
\* operation ends (the actions choose how) and the continuation that waits for
\* it is then run by the event loop: weak fairness of the next step.
NextStreams ==
  \/ Next
  \/ \E s \in Sessions : ExtractZipStreamError(s)

SpecStreams == InitStreams /\ [][NextStreams]_vars /\ WF_vars(NextStreams)

\* Construction and the version comparison on their own.
NextVersions ==
  \/ \E s \in Sessions : Construct(s)
  \/ Compare

SpecVersions == InitVersions /\ [][NextVersions]_vars

\* The build command around the class.
NextCli ==
  \/ Next
  \/ \E s \in Sessions : CliValidate(s) \/ CliExit(s)

SpecCli == InitCli /\ [][NextCli]_vars

\* The class and the sweep.
NextSweep ==
  \/ Next
  \/ Sweep

SpecSweep == InitSweep /\ [][NextSweep]_vars

\* The class used for more than one build() per instance.
NextReuse ==
  \/ Next
  \/ \E s \in Sessions : Rebuild(s)

SpecReuse == InitReuse /\ [][NextReuse]_vars

\* ------------------------------------------------------------------ claims
Built == {s \in Sessions : pc[s] = "returned"}
platformsOf(s) == opts[s].platforms
Indices(s) == 1..Len(platformsOf(s))

\* C1 -- failure isolation: when build() has returned, every requested
\* platform had its pipeline started, and platform i is reported as a success
\* exactly when no stage of its own pipeline threw, whatever happened to the
\* platforms before it.
C1_FailureIsolation ==
  \A s \in Built :
    /\ started[s] = Len(platformsOf(s))
    /\ Len(results[s]) = Len(platformsOf(s))
    /\ \A i \in Indices(s) : results[s][i].success <=> (failedAt[s][i] = "none")

\* A build in which the first platform failed and the second succeeded.
C1_Witness ==
  \E s \in Built :
    /\ Len(results[s]) = 2
    /\ failedAt[s][1] # "none" /\ ~results[s][1].success
    /\ failedAt[s][2] = "none" /\ results[s][2].success

\* C2 -- one result per requested platform, in request order: while build()
\* runs the results are the results of the platforms handled so far, in order,
\* and when it has returned there is one for every requested platform.
C2_OneResultPerPlatformInOrder ==
  \A s \in Sessions :
    /\ Len(results[s]) <= Len(platformsOf(s))
    /\ \A i \in 1..Len(results[s]) : results[s][i].platform = platformsOf(s)[i]
    /\ s \in Built => Len(results[s]) = Len(platformsOf(s))

\* A returned build of two different platforms with one failure and one success.
C2_Witness ==
  \E s \in Built :
    /\ Len(results[s]) = 2
    /\ platformsOf(s)[1] # platformsOf(s)[2]
    /\ results[s][1].success # results[s][2].success

\* C3 as stated -- after build() has returned, the workspace directory
\* tempDir/buildId no longer exists.
C3_WorkspaceGoneAfterBuild ==
  \A s \in Built : buildId[s] \notin workDirs

\* C3 amended -- after build() has returned, the workspace directory (with
\* every config and blob file in it) no longer exists, unless the recursive
\* removal of cleanupTempDir itself failed, which is only logged.
C3_WorkspaceGoneUnlessRemovalFailed ==
  \A s \in Built :
    \/ teardowns[s] = <<"failed">>
    \/ /\ buildId[s] \notin workDirs
       /\ \A k \in DOMAIN configs \cup DOMAIN blobs : k[1] # buildId[s]

\* A returned build with a failed and a successful platform whose workspace
\* was removed.
C3_Witness ==
  \E s \in Built :
    /\ teardowns[s] = <<"removed">>
    /\ buildId[s] \notin workDirs
    /\ \E i, j \in Indices(s) : results[s][i].success /\ ~results[s][j].success

SuccessFields == {"platform", "success", "executable", "path", "buildId"}
FailureFields == {"platform", "success", "error"}

C5_TeardownOnceAfterLastPlatform ==
  \A s \in Sessions :
    /\ Len(teardowns[s]) <= 1
    /\ (Len(teardowns[s]) = 1) <=> (s \in Built)
    /\ pc[s] \in {"teardown", "returned"} => Len(results[s]) = Len(platformsOf(s))
    /\ pc[s] \in {"teardown", "returned"} => started[s] = Len(platformsOf(s))

\* A returned build of two platforms, torn down once.
C5_Witness ==
  \E s \in Built : Len(teardowns[s]) = 1 /\ Len(results[s]) = 2 /\ started[s] = 2

\* The pipelines of session s that have ended (their result is in results[s]).
Ended(s) == 1..Len(results[s])
BetweenPipelines(s) == pc[s] \in {"config", "teardown", "returned"}

ownerOf(id) == CHOOSE s \in Sessions : buildId[s] = id

\* C7 -- every config file written for a platform other than the host has
\* useSnapshot = false and useCodeCache = false whatever the options say; a
\* config file written for the host platform carries the options' flags.
C7_CrossPlatformFlagsOff ==
  \A k \in DOMAIN configs :
    LET o == opts[ownerOf(k[1])]
    IN  IF k[2] # host
        THEN ~configs[k].useSnapshot /\ ~configs[k].useCodeCache
        ELSE /\ configs[k].useSnapshot = o.useSnapshot
             /\ configs[k].useCodeCache = o.useCodeCache

\* A config file for a foreign platform, written although both flags were requested.
C7_Witness ==
  \E k \in DOMAIN configs :
    /\ k[2] # host
    /\ opts[ownerOf(k[1])].useSnapshot /\ opts[ownerOf(k[1])].useCodeCache
    /\ ~configs[k].useSnapshot

\* C8 -- executable naming, for the output name of every session: for win32
\* the name is the base name with ".exe" appended exactly once (unchanged when
\* the base name already ends in ".exe"), the rule applied to its own result
\* changes nothing, and for linux and darwin the name is the base name; the
\* binary is copied to exactly that name, and a successful win32 result reports
\* a name that ends in ".exe" and is the name of the copied file.
C8_ExecutableNaming ==
  \A s \in Sessions :
    LET base == opts[s].output
        win == getExecutableName(base, "win32")
    IN  /\ endsWith(win, ExeSuffix)
        /\ endsWith(base, ExeSuffix) => win = base
        /\ ~endsWith(base, ExeSuffix) => win = base \o ExeSuffix
        /\ \A p \in SupportedPlatforms :
             getExecutableName(getExecutableName(base, p), p) = getExecutableName(base, p)
        /\ getExecutableName(base, "linux") = base
        /\ getExecutableName(base, "darwin") = base
        /\ pc[s] = "inject" =>
             /\ executableName(s) \in DOMAIN outFiles
             /\ outFiles[executableName(s)].blob = NoBlob
             /\ outFiles[executableName(s)].runtime = nodePath[s].key[1]
             /\ currentPlatform(s) = "win32" => executableName(s) = win
             /\ currentPlatform(s) # "win32" => executableName(s) = base
        /\ \A i \in Ended(s) :
             results[s][i].success =>
               /\ results[s][i].executable \in DOMAIN outFiles
               /\ results[s][i].path = <<"cwd", results[s][i].executable>>
               /\ results[s][i].platform = "win32" =>
                    /\ endsWith(results[s][i].executable, ExeSuffix)
                    /\ results[s][i].executable = win

\* A successful win32 build whose base name already ended in ".exe".
C8_Witness ==
  \E s \in Built :
    /\ opts[s].output = <<"a", ".", "e", "x", "e">>
    /\ results[s][1].platform = "win32"
    /\ results[s][1].success
    /\ results[s][1].executable = <<"a", ".", "e", "x", "e">>

Count(seq, x) == Cardinality({i \in 1..Len(seq) : seq[i] = x})

\* downloadNodeBinary of session s is running or has just returned its path.
Acquiring(s) == pc[s] \in {"check", "download", "extract", "finish"}
Acquired(s) == pc[s] = "copy" /\ nodePath[s].src = "cache"
WarmAtStart(s) == executablePath(s) \in DOMAIN acqStart[s].bins

\* C9 -- warm cache: when the binary of the resolved version existed at the
\* canonical path as downloadNodeBinary began, the acquisition never reaches
\* the download, the extraction or the archive removal, returns that path, and
\* leaves the cache exactly as it found it.
C9_WarmCacheHit ==
  \A s \in Sessions :
    ((Acquiring(s) \/ Acquired(s)) /\ WarmAtStart(s)) =>
      /\ pc[s] \in {"check", "copy"}
      /\ Count(trace[s], "download") = 0
      /\ Count(trace[s], "extract") = 0
      /\ cache = acqStart[s]
      /\ Acquired(s) => nodePath[s].key = executablePath(s)

\* An acquisition that has returned the path of an entry found in the cache.
C9_Witness ==
  \E s \in Sessions :
    /\ Acquired(s) /\ WarmAtStart(s)
    /\ nodePath[s].key = executablePath(s)
    /\ currentPlatform(s) # host

\* C10 -- cold cache: when no binary of the resolved version existed as
\* downloadNodeBinary began and the acquisition returns a path, exactly one
\* download and one extraction were made, the binary exists at
\* cache/platform/version/(node|node.exe), the downloaded archive is gone, and
\* for a target other than win32 the binary has mode 755.
C10_ColdCacheAcquire ==
  \A s \in Sessions :
    (Acquired(s) /\ ~WarmAtStart(s)) =>
      /\ Count(trace[s], "download") = 1
      /\ Count(trace[s], "extract") = 1
      /\ nodePath[s].key = executablePath(s)
      /\ executablePath(s) \in DOMAIN cache.bins
      /\ executablePath(s) \in cache.verDirs
      /\ archivePath(s) \notin DOMAIN cache.archives
      /\ currentPlatform(s) # "win32" => cache.bins[executablePath(s)].mode = "755"

\* A cold acquisition for linux or darwin that has returned its path.
C10_Witness ==
  \E s \in Sessions :
    /\ Acquired(s) /\ ~WarmAtStart(s)
    /\ currentPlatform(s) \in {"linux", "darwin"}
    /\ cache.bins[executablePath(s)].mode = "755"
    /\ acqStart[s] = EmptyCache

\* The positions of a session inside buildForPlatform, and inside downloadNodeBinary.
PipelineStages ==
  {"config", "blob", "assemble", "resolve", "check", "download", "extract", "finish",
   "copy", "inject", "verify", "sign", "cleanup"}
AcquisitionStages == {"resolve", "check", "download", "extract", "finish"}
InPipeline(s) == pc[s] \in PipelineStages
HostRuntime == [src |-> "host", key |-> <<host, NoVersion>>]

\* C11: while a session builds the host's own platform, the base binary is the
\* host's runtime (process.execPath); no step of that pipeline requests the
\* version index, enters downloadNodeBinary, or changes the runtime cache, and
\* the executable is copied from the host runtime, not from a cache entry.
C11_HostUsesOwnRuntime ==
  /\ [](\A s \in Sessions :
          (InPipeline(s) /\ currentPlatform(s) = host) =>
             /\ pc[s] \notin AcquisitionStages
             /\ fetched[s] = "none"
             /\ (pc[s] \in {"copy", "inject", "verify", "sign"} => nodePath[s] = HostRuntime)
             /\ (pc[s] \in {"inject", "verify", "sign"} /\ executableName(s) \in DOMAIN outFiles
                   => outFiles[executableName(s)].runtime = host))
  /\ [][\A s \in Sessions :
          (InPipeline(s) /\ currentPlatform(s) = host) => cache' = cache]_vars

\* A host-platform pipeline that assembled its executable after an earlier
\* platform of the same build filled the cache.
C11_Witness ==
  \E s \in Sessions :
    /\ pc[s] = "inject"
    /\ currentPlatform(s) = host
    /\ nodePath[s] = HostRuntime
    /\ cache.bins # <<>>
    /\ executableName(s) \in DOMAIN outFiles

LastResult(s) == results[s][Len(results[s])]

\* C12: downloadNodeBinary throws whenever node / node.exe is absent at the
\* canonical cache path after extractNodeBinary resolved, and that platform's
\* result is then a failure; every path it returns names a cache file that
\* exists at the moment of the return.
C12_AbsentBinaryFailsAcquisition ==
  [][\A s \in Sessions :
       /\ (pc[s] = "finish" /\ executablePath(s) \notin DOMAIN cache.bins) =>
             /\ pc'[s] = "cleanup"
             /\ pending'[s] = "extract"
             /\ nodePath'[s] = NoPath
       /\ (pc[s] = "cleanup" /\ pending[s] = "extract") =>
             /\ Len(results'[s]) = Len(results[s]) + 1
             /\ ~results'[s][Len(results'[s])].success
             /\ results'[s][Len(results'[s])].platform = currentPlatform(s)
       /\ (nodePath'[s] # nodePath[s] /\ nodePath'[s].src = "cache") =>
             nodePath'[s].key \in DOMAIN cache'.bins]_vars

\* The extractor resolved without writing the binary, and downloadNodeBinary threw.
C12_Witness ==
  \E s \in Sessions :
    /\ pc[s] = "cleanup"
    /\ pending[s] = "extract"
    /\ trace[s][Len(trace[s])] = "finish"
    /\ executablePath(s) \in cache.verDirs
    /\ executablePath(s) \notin DOMAIN cache.bins

\* version[s] holds what getRecommendedNodeVersion returned for the current platform.
Resolved(s) == fetched[s] # "none"

\* a <= b on <<major, minor, patch>>
LexLeq(a, b) ==
  \/ a[1] < b[1]
  \/ a[1] = b[1] /\ a[2] < b[2]
  \/ a[1] = b[1] /\ a[2] = b[2] /\ a[3] <= b[3]

\* The positions in the index of the entries that pass the filter.
Filtered == {i \in 1..Len(index) : validEntry(index[i])}

\* C13: whatever the index holds and however the request ends, the resolved
\* version is at least 19.9.0, at most 22.99.99, and carries neither an "rc"
\* nor a "beta" tag.
C13_ResolvedVersionInRange ==
  \A s \in Sessions :
    Resolved(s) =>
      /\ LexLeq(<<19, 9, 0>>, version[s].parts)
      /\ LexLeq(version[s].parts, <<22, 99, 99>>)
      /\ version[s].tag \notin {"rc", "beta"}

\* The index held only out-of-range and pre-release entries and was fetched.
C13_Witness ==
  \E s \in Sessions :
    /\ Resolved(s)
    /\ fetched[s] = "ok"
    /\ Len(index) >= 2
    /\ Filtered = {}
    /\ \E i \in 1..Len(index) : index[i].tag = "rc"
    /\ \E i \in 1..Len(index) : ~LexLeq(index[i].parts, <<22, 99, 99>>)

\* C14: when the index request fails (or its response cannot be processed) or
\* no entry passes the filter, the resolved version is 20.18.0; resolving never
\* throws: the pipeline goes on to the cache lookup with no error pending.
C14_ResolutionDegrades ==
  /\ [](\A s \in Sessions :
          (Resolved(s) /\ (fetched[s] = "failed" \/ Filtered = {})) =>
             version[s] = [parts |-> <<20, 18, 0>>, tag |-> ""])
  /\ [][\A s \in Sessions :
          pc[s] = "resolve" =>
             /\ pc'[s] = "check"
             /\ pending'[s] = "none"
             /\ failedAt'[s] = failedAt[s]
             /\ results'[s] = results[s]]_vars

\* A build that resolved by fallback and went on to produce its executable.
C14_Witness ==
  \E s \in Sessions :
    /\ pc[s] = "cleanup"
    /\ pending[s] = "none"
    /\ fetched[s] = "ok"
    /\ index # <<>>
    /\ Filtered = {}
    /\ version[s] = [parts |-> <<20, 18, 0>>, tag |-> ""]

\* The priorities (positions in the preferred list) of the preferred versions
\* that are among the filtered entries.
PreferredPresent ==
  {j \in 1..Len(preferredVersions) :
     \E i \in Filtered : index[i].parts = preferredVersions[j] /\ index[i].tag = ""}

\* C15: when the fetched index holds a preferred version among its filtered
\* entries, the resolved version is the present preferred version of highest
\* priority, wherever the entries stand in the index.
C15_PreferredByPriority ==
  \A s \in Sessions :
    (Resolved(s) /\ fetched[s] = "ok" /\ PreferredPresent # {}) =>
       \E j \in PreferredPresent :
         /\ \A k \in PreferredPresent : j <= k
         /\ version[s] = [parts |-> preferredVersions[j], tag |-> ""]

\* Two preferred versions, the one of lower priority first in the index.
C15_Witness ==
  \E s \in Sessions :
    /\ Resolved(s)
    /\ fetched[s] = "ok"
    /\ Len(index) >= 2
    /\ index[1].parts = <<20, 16, 0>>
    /\ \E i \in 2..Len(index) : index[i].parts = <<20, 18, 0>> /\ index[i].tag = ""
    /\ version[s].parts = <<20, 18, 0>>

\* The filtered entries flagged long-term-support in the 20 line.
FilteredLts20 == {i \in Filtered : index[i].lts /\ index[i].parts[1] = 20}

\* C16: with no preferred version among the filtered entries, the resolved
\* version is the highest filtered long-term-support entry of major version
\* 20, in whatever order the index lists its entries; with no such entry it
\* is the first filtered entry.
C16_NewestLtsElseFirst ==
  \A s \in Sessions :
    (Resolved(s) /\ fetched[s] = "ok" /\ PreferredPresent = {} /\ Filtered # {}) =>
       IF FilteredLts20 # {}
       THEN \E i \in FilteredLts20 :
              /\ \A k \in FilteredLts20 : LexLeq(index[k].parts, index[i].parts)
              /\ version[s] = versionOf(index[i])
       ELSE \E i \in Filtered :
              /\ \A k \in Filtered : i <= k
              /\ version[s] = versionOf(index[i])

\* Every requested platform was attempted and reported, in order.
AllReported(s) ==
  /\ started[s] = Len(platformsOf(s))
  /\ Len(results[s]) = Len(platformsOf(s))
  /\ \A j \in Indices(s) : results[s][j].platform = platformsOf(s)[j]

\* The errors a pipeline can end with before it needs the download URL.
BeforeUrl == {"config", "blob"}

\* Platform i of session s ended as a failure of its own with the
\* 'Unsupported platform' error (or with the error of a stage that failed
\* before the platform was looked at).
RejectedAsUnsupported(s, i) ==
  /\ ~results[s][i].success
  /\ results[s][i].error \in {"unsupported"} \cup BeforeUrl
  /\ (failedAt[s][i] \notin BeforeUrl => results[s][i].error = "unsupported")

\* C17: every requested platform outside {linux, darwin, win32} ends as a
\* failed result with the 'Unsupported platform' error, and the other
\* requested platforms are still built and reported.
C17_UnsupportedFailsAlone ==
  \A s \in Built :
    /\ AllReported(s)
    /\ \A i \in Indices(s) :
         platformsOf(s)[i] \notin SupportedPlatforms => RejectedAsUnsupported(s, i)

\* C18: in a win32 pipeline the verification runs exactly once, right after
\* the injector exited successfully and before signing; it never runs in a
\* pipeline of another platform, nor after a failed injection.
C18_VerifyOnceAfterInject ==
  \A s \in Sessions :
    InPipeline(s) =>
      LET p == currentPlatform(s)
          tr == trace[s]
      IN  /\ Count(tr, "verify") <= 1
          /\ (p # "win32" => Count(tr, "verify") = 0 /\ pc[s] # "verify")
          /\ \A i \in 1..Len(tr) :
               /\ tr[i] = "verify" => i > 1 /\ tr[i - 1] = "inject"
               /\ (tr[i] = "sign" /\ p = "win32") => i > 1 /\ tr[i - 1] = "verify"
          /\ (pending[s] = "inject" => Count(tr, "verify") = 0)
          /\ (pc[s] = "verify" =>
                Count(tr, "verify") = 0 /\ tr[Len(tr)] = "inject" /\ pending[s] = "none")
          /\ (p = "win32" /\ pc[s] \in {"sign", "cleanup"} /\ Count(tr, "inject") = 1
                /\ pending[s] # "inject") => Count(tr, "verify") = 1

\* A win32 pipeline about to sign, verified once after its injection.
C18_Witness ==
  \E s \in Sessions :
    /\ pc[s] = "sign"
    /\ currentPlatform(s) = "win32"
    /\ Count(trace[s], "inject") = 1
    /\ Count(trace[s], "verify") = 1
    /\ trace[s][Len(trace[s])] = "verify"

\* The --help run returned its output and the output holds the banner: the
\* executable still behaves as the bare runtime.
BannerSeen(s) ==
  /\ probe[s] = "ran"
  /\ executableName(s) \in DOMAIN outFiles
  /\ ~outFiles[executableName(s)].effective

\* C19: when the output of the --help run holds the banner, the win32
\* pipeline fails with the verification error, signing is not attempted and
\* the platform result is a failure; when the output does not hold it,
\* verification passes and the pipeline goes on to signing.
C19_BannerFailsVerification ==
  /\ [](\A s \in Sessions :
          (InPipeline(s) /\ probe[s] = "ran") =>
             IF BannerSeen(s)
             THEN /\ pc[s] = "cleanup"
                  /\ pending[s] = "verify"
                  /\ Count(trace[s], "sign") = 0
             ELSE /\ pc[s] \in {"sign", "cleanup"}
                  /\ pending[s] = "none")
  /\ [][\A s \in Sessions :
          (pc[s] = "cleanup" /\ BannerSeen(s)) =>
             /\ Len(results'[s]) = Len(results[s]) + 1
             /\ results'[s][Len(results'[s])].platform = "win32"
             /\ ~results'[s][Len(results'[s])].success]_vars

\* The injector exited zero without effect and the verification caught it.
C19_Witness ==
  \E s \in Sessions :
    /\ pc[s] = "cleanup"
    /\ BannerSeen(s)
    /\ pending[s] = "verify"
    /\ outFiles[executableName(s)].blob # NoBlob

\* C20: when the --help run of the verification exceeds its time bound, the
\* win32 pipeline ends with an error and its result has success = FALSE.
C20_TimeoutFailsPlatform ==
  [][\A s \in Sessions :
       (pc[s] = "cleanup" /\ probe[s] = "timeout") =>
          /\ pending[s] # "none"
          /\ ~results'[s][Len(results'[s])].success]_vars

\* C21: a failed signature removal or a failed signing is only a warning: no
\* pipeline ever ends with an error of one of them, signing always hands over
\* to the cleanup, and a pipeline whose other stages succeeded ends with a
\* success result whatever warnings were logged.
C21_StripAndSignNeverFail ==
  /\ [](\A s \in Sessions :
          /\ pending[s] \notin {"strip", "sign"}
          /\ \A i \in 1..Len(failedAt[s]) : failedAt[s][i] \notin {"strip", "sign"})
  /\ [][\A s \in Sessions :
          /\ pc[s] = "sign" => pc'[s] = "cleanup" /\ pending'[s] = "none"
          /\ (pc[s] = "cleanup" /\ pending[s] = "none") =>
                /\ Len(results'[s]) = Len(results[s]) + 1
                /\ results'[s][Len(results'[s])].success
                /\ results'[s][Len(results'[s])].platform = currentPlatform(s)]_vars

\* Both the signature removal and the signing failed, and nothing else did.
C21_Witness ==
  \E s \in Sessions :
    /\ pc[s] = "cleanup"
    /\ pending[s] = "none"
    /\ warned[s] = {"strip", "sign"}

\* C22 -- no pipeline stage runs unless the entry-point path refers to an
\* existing regular file: whenever a stage of some platform has run (the config
\* was written, the blob generation was started, ...) the entry point is a file.
C22_NoStageWithoutMainFile ==
  \A s \in Sessions : trace[s] # <<>> => mainFile = "file"

\* C23 -- the build command exits with 0 exactly when at least one platform
\* result is a success: a process that has exited did so with code 0 if some
\* result of build() has success = true, and with code 1 otherwise.
C23_ExitCode ==
  \A s \in Sessions :
    exit[s] \in {"0", "1"} =>
      /\ exit[s] = "0" <=> \E i \in 1..Len(results[s]) : results[s][i].success
      /\ exit[s] = "0" => Len(teardowns[s]) = 1 /\ Len(results[s]) = Len(platformsOf(s))

\* A partial success: the command exited with 0 after one platform failed and
\* another succeeded.
C23_Witness ==
  \E s \in Sessions :
    /\ exit[s] = "0"
    /\ Len(results[s]) = 2
    /\ ~results[s][1].success
    /\ results[s][2].success

\* The sessions that have been constructed.
Constructed == {s \in Sessions : pc[s] \notin {"absent", "cli", "new", "exited"}}

\* C24 -- two simultaneous sessions do not interfere through intermediate
\* files: their workspaces are distinct, the config and blob path of a session
\* lie in its own workspace, and a step of one session (a stage, the
\* per-platform cleanup, the teardown) neither creates, changes nor deletes a
\* workspace, config file or blob file outside its own workspace.
C24_NoInterference ==
  /\ [](\A s \in Constructed :
          /\ \A u \in Constructed \ {s} : buildId[u] # buildId[s]
          /\ configPath(s)[1] = tempBuildDir(s)
          /\ blobPath(s)[1] = tempBuildDir(s)
          /\ configPath(s) \in DOMAIN configs =>
                configs[configPath(s)].output = blobPath(s))
  /\ [][\A s \in Sessions :
          pc'[s] # pc[s] =>
            /\ \A id \in (workDirs \cup workDirs') \ {buildId'[s]} :
                 id \in workDirs /\ id \in workDirs'
            /\ \A k \in (DOMAIN configs \cup DOMAIN configs') :
                 k[1] # buildId'[s] =>
                   k \in DOMAIN configs /\ k \in DOMAIN configs' /\ configs'[k] = configs[k]
            /\ \A k \in (DOMAIN blobs \cup DOMAIN blobs') :
                 k[1] # buildId'[s] =>
                   k \in DOMAIN blobs /\ k \in DOMAIN blobs' /\ blobs'[k] = blobs[k]]_vars

\* One session has returned and removed its workspace while the other, building
\* the same platform, still has its config and blob file.
C24_Witness ==
  \E s, u \in Sessions :
    /\ s # u
    /\ pc[s] = "returned" /\ teardowns[s] = <<"removed">>
    /\ pc[u] = "assemble"
    /\ configPath(u) \in DOMAIN configs
    /\ blobPath(u) \in DOMAIN blobs
    /\ currentPlatform(u) = platformsOf(s)[1]

\* C25 -- concurrent first-time acquisitions of one (platform, version) are
\* benign: a session whose own download and extraction went through, so that
\* the complete binary is at the canonical path, returns that path from the
\* acquisition whatever the other session did in between.
C25_ConcurrentAcquisitionsBenign ==
  [][\A s \in Sessions :
       (/\ pc[s] = "finish"
        /\ executablePath(s) \in DOMAIN cache.bins
        /\ cache.bins[executablePath(s)].content = "full"
        /\ pc'[s] # pc[s])
       => (/\ pc'[s] = "copy"
           /\ nodePath'[s] = [src |-> "cache", key |-> executablePath(s)])]_vars

\* C26 -- every platform pipeline that was started eventually has its result,
\* and build() eventually returns.
C26_EveryPipelineEnds ==
  \A s \in Sessions :
    /\ (started[s] > Len(results[s])) ~> (started[s] = Len(results[s]))
    /\ (pc[s] = "ready") ~> (pc[s] = "returned")

\* The platform's name in the file names of the distribution site.
PlatformToken(platform) == IF platform = "win32" THEN "win" ELSE platform

ArchiveSuffix(platform) == IF platform = "win32" THEN ".zip" ELSE ".tar.gz"

Value(digits) ==
  LET n == Len(digits)
      RECURSIVE Sum(_)
      Sum(i) == IF i > n THEN 0 ELSE digits[i] * (10 ^ (n - i)) + Sum(i + 1)
  IN  Sum(1)

\* The numeric components of a version string, padded with zeros to length n.
Padded(text, n) == [i \in 1..n |-> IF i <= Len(text) THEN Value(text[i]) ELSE 0]

\* Lexicographic order on number sequences of one length.
LexGeq(a, b) ==
  \/ a = b
  \/ \E k \in 1..Len(a) : a[k] > b[k] /\ \A j \in 1..(k - 1) : a[j] = b[j]

GeqPadded(a, b) == LexGeq(Padded(a, Max(Len(a), Len(b))), Padded(b, Max(Len(a), Len(b))))

RequiredText == << <<1, 9>>, <<9>>, <<0>> >>

\* C28 -- isVersionGreaterOrEqual(a, b) is true exactly when the numeric
\* components of a, padded with zeros to the longer length, are
\* lexicographically greater than or equal to those of b; the documented
\* examples hold; and constructing a session fails exactly when the host's
\* version is below 19.9.0 in this order.
C28_VersionOrder ==
  /\ asked.answer # "none" =>
       (asked.answer = "true" <=> GeqPadded(asked.current, asked.required))
  /\ \A s \in Sessions :
       pc[s] \in {"ready", "rejected"} =>
         (pc[s] = "rejected" <=> ~GeqPadded(asked.current, RequiredText))
  /\ isVersionGreaterOrEqual(<<20, 1, 0>>, <<19, 9, 0>>)
  /\ ~isVersionGreaterOrEqual(<<19, 8, 9>>, <<19, 9, 0>>)
  /\ isVersionGreaterOrEqual(<<20>>, <<20, 0, 0>>)

\* A shorter version was compared with a longer one that is greater only in a
\* component the shorter one lacks, and a host below 19.9.0 was rejected.
C28_Witness ==
  /\ asked.answer = "false"
  /\ Len(asked.current) < Len(asked.required)
  /\ \A i \in 1..Len(asked.current) : Value(asked.current[i]) = Value(asked.required[i])
  /\ pc["s1"] = "rejected"

\* C29 -- the tar-gzip extractor writes only the member whose path is exactly
\* node-v{version}-{platform}-x64/bin/node: when the archive holds it, among
\* any other members, the destination afterwards holds the one file `node` and
\* no directory; when it does not, the destination is left empty; either way
\* the extractor returns without an error.
C29_TarExtractsOnlyTheBinary ==
  \A s \in Sessions :
    extraction[s].ran =>
      LET e == extraction[s]
          wanted == nodeBinaryPath(version[s], currentPlatform(s))
      IN  /\ pc[s] = "finish" /\ pending[s] = "none"
          /\ currentPlatform(s) # "win32"
          /\ wanted \in e.members => e.files = {finalPath} /\ e.dirs = {}
          /\ wanted \notin e.members => e.files = {} /\ e.dirs = {}
          /\ executablePath(s) \in DOMAIN cache.bins <=> wanted \in e.members

\* An archive with the wanted member and three others has been extracted.
C29_Witness ==
  \E s \in Sessions :
    /\ extraction[s].ran
    /\ Cardinality(extraction[s].members) = 4
    /\ nodeBinaryPath(version[s], currentPlatform(s)) \in extraction[s].members
    /\ extraction[s].files = {finalPath}

\* The state of the per-platform state machine a recorded step belongs to:
\* 1 Configuring, 2 GeneratingArtifact, 3 AssemblingExecutable (with the
\* acquisition of the base binary and the signature removal), 4 Injecting,
\* 5 Verifying, 6 Signing.
StageRank(step) ==
  CASE step = "config" -> 1
    [] step = "blob" -> 2
    [] step \in {"assemble", "resolve", "check", "download", "extract", "finish",
                 "copy", "strip"} -> 3
    [] step = "inject" -> 4
    [] step = "verify" -> 5
    [] step = "sign" -> 6

\* The state in which an error was thrown.
ErrorRank(error) ==
  CASE error = "blob" -> 2
    [] error \in {"unsupported", "download", "extract", "chmod", "copy"} -> 3
    [] error = "inject" -> 4
    [] error = "verify" -> 5

RanksOf(s) == {StageRank(trace[s][i]) : i \in 1..Len(trace[s])}

\* The steps recorded for the current platform of s respect the order and the
\* dependencies of the stages.
StagesInOrder(s) ==
  LET tr == trace[s]
  IN  /\ \A i, j \in 1..Len(tr) :
           i < j => /\ StageRank(tr[i]) <= StageRank(tr[j])
                    /\ StageRank(tr[i]) = StageRank(tr[j]) => StageRank(tr[i]) = 3
      /\ tr # <<>> => 1 \in RanksOf(s)
      /\ 3 \in RanksOf(s) => 2 \in RanksOf(s)
      /\ 4 \in RanksOf(s) => 3 \in RanksOf(s) /\ tr[Len(tr)] # "strip"
      /\ 5 \in RanksOf(s) => 4 \in RanksOf(s) /\ currentPlatform(s) = "win32"
      /\ 6 \in RanksOf(s) =>
           /\ 4 \in RanksOf(s)
           /\ currentPlatform(s) \in {"darwin", "win32"}
           /\ currentPlatform(s) = "win32" => 5 \in RanksOf(s)
      /\ pending[s] # "none" =>
           /\ pc[s] = "cleanup"
           /\ tr # <<>>
           /\ StageRank(tr[Len(tr)]) = ErrorRank(pending[s])
      /\ pc[s] = "cleanup" /\ pending[s] = "none" =>
           /\ 4 \in RanksOf(s)
           /\ currentPlatform(s) = "win32" => 5 \in RanksOf(s)
           /\ currentPlatform(s) \in {"darwin", "win32"} => 6 \in RanksOf(s)

\* C30 -- per-platform stage gating: the steps of a pipeline run in the order
\* Configuring, GeneratingArtifact, AssemblingExecutable, Injecting, Verifying
\* (win32 only), Signing (darwin and win32 only), each of the single-step
\* stages at most once and none before the stages it depends on; the stage
\* that throws is the last one run, after it only the cleanup runs, and so the
\* injector is never invoked when blob generation or assembly failed.
C30_StageGating ==
  /\ [](\A s \in Sessions : StagesInOrder(s))
  /\ [][\A s \in Sessions :
          pending[s] # "none" => trace'[s] \in {trace[s], <<>>} /\ pc'[s] # "inject"]_vars

\* Assembly failed at the copy: the pipeline is about to clean up and the
\* injector has not run.
C30_Witness ==
  \E s \in Sessions :
    /\ pc[s] = "cleanup"
    /\ pending[s] = "copy"
    /\ RanksOf(s) = {1, 2, 3}

\* C31 -- signing applicability: within the pipeline of one platform the
\* signing subprocess is attempted at most once; it is attempted only for
\* darwin or win32, after the injector ran without an error and, for win32,
\* after the verification let the build pass, and never in a pipeline that has
\* failed; a darwin or win32 pipeline that reaches its final cleanup without a
\* failure has attempted it exactly once.  So it is never attempted for linux.
SignAttempts(s) == Count(trace[s], "sign")

C31_SigningApplicability ==
  \A s \in Sessions :
    trace[s] # <<>> =>
      /\ SignAttempts(s) <= 1
      /\ SignAttempts(s) = 1 =>
           /\ currentPlatform(s) \in {"darwin", "win32"}
           /\ Count(trace[s], "inject") = 1
           /\ currentPlatform(s) = "win32" => Count(trace[s], "verify") = 1
           /\ pending[s] = "none"
      /\ currentPlatform(s) = "linux" => SignAttempts(s) = 0
      /\ pending[s] # "none" => SignAttempts(s) = 0
      /\ (pc[s] = "cleanup" /\ pending[s] = "none"
            /\ currentPlatform(s) \in {"darwin", "win32"}) => SignAttempts(s) = 1

\* A win32 pipeline that was injected, verified and signed once.
C31_Witness ==
  \E s \in Sessions :
    /\ pc[s] = "cleanup"
    /\ pending[s] = "none"
    /\ currentPlatform(s) = "win32"
    /\ SignAttempts(s) = 1

\* C32 -- platforms one at a time: while a pipeline of build() is at any of
\* its stages, it is the pipeline of platform idx and the only one: every
\* platform before it has its result in the results array and has had its
\* per-platform cleanup (where buildForPlatform runs one, that is unless its
\* configuration could not be written), no platform after it has been
\* started, and the stages recorded are those of platform idx alone.
C32_OnePlatformAtATime ==
  \A s \in Sessions :
    InPipeline(s) =>
      /\ Len(results[s]) = idx[s] - 1
      /\ \A j \in 1..(idx[s] - 1) :
           /\ results[s][j].platform = platformsOf(s)[j]
           /\ failedAt[s][j] # "config" => j \in cleaned[s]
      /\ started[s] = IF pc[s] = "config" THEN idx[s] - 1 ELSE idx[s]
      /\ cleaned[s] \subseteq 1..(idx[s] - 1)
      /\ \A k \in 1..Len(trace[s]) : Count(trace[s], trace[s][k]) = 1

\* The second platform is in its pipeline after the first one got its result.
C32_Witness ==
  \E s \in Sessions :
    /\ pc[s] = "inject"
    /\ idx[s] = 2
    /\ Len(results[s]) = 1
    /\ 1 \in cleaned[s]

\* C33 -- the workspace sweep, as stated: a run of cleanupAllTempDirs returns
\* without raising; afterwards every entry of the temp root whose name starts
\* with `build-` is gone, except those whose removal failed, whose failure does
\* not keep the other entries from being removed; every entry with another
\* name, and nothing else, is still there.
C33_SweepRemovesEveryPrefixed ==
  [][sweep'.runs = sweep.runs + 1 =>
       LET before == readdirSync
           after == tempRoot' \cup {entryName(id) : id \in workDirs'}
       IN  /\ ~sweep'.raised
           /\ after \subseteq before
           /\ \A n \in before :
                /\ ~startsWith(n, BuildPrefix) => n \in after
                /\ (startsWith(n, BuildPrefix) /\ n \notin sweep'.failed) => n \notin after]_vars

\* C33, amended -- the same, for the entries the sweep could list: when the
\* listing of the temp root itself fails nothing is removed, and the sweep
\* still returns without raising.
C33_SweepRemovesListed ==
  [][sweep'.runs = sweep.runs + 1 =>
       LET before == readdirSync
           after == tempRoot' \cup {entryName(id) : id \in workDirs'}
           prefixed == {n \in before : startsWith(n, BuildPrefix)}
       IN  /\ ~sweep'.raised
           /\ after \subseteq before
           /\ sweep'.listed \in {prefixed, {}}
           /\ \A n \in before :
                /\ ~startsWith(n, BuildPrefix) => n \in after
                /\ (n \in sweep'.listed /\ n \notin sweep'.failed) => n \notin after
                /\ n \notin sweep'.listed => n \in after]_vars

\* A sweep has removed one prefixed entry although the removal of another
\* failed, with other entries beside them.
C33_Witness ==
  /\ sweep.runs = 1
  /\ sweep.failed # {}
  /\ sweep.removed # {}
  /\ \E n \in tempRoot : ~startsWith(n, BuildPrefix)

\* C34 -- no eviction: a binary that exists at its canonical cache path still
\* exists there after any step of any session (acquisition of the same or of
\* another key, per-platform cleanup, teardown) and after a workspace sweep.
C34_CacheNeverEvicted ==
  [][\A key \in DOMAIN cache.bins : key \in DOMAIN cache'.bins]_vars

\* A build whose first platform filled the cache and whose second platform
\* used the entry has returned, its workspace is torn down and a sweep has
\* run: the entry is still there.
C34_Witness ==
  \E s \in Built :
    /\ Len(results[s]) = 2
    /\ \A i \in 1..2 : results[s][i].success
    /\ teardowns[s] # <<>>
    /\ sweep.runs = 1
    /\ sweep.removed # {}
    /\ DOMAIN cache.bins # {}

\* C35 -- distinct outputs within one build(): when build() has returned, no
\* two successful results name the same path, and the file at the path of
\* each successful result is the executable built for that result's platform.
C35_OutputsNotShared ==
  \A s \in Built :
    \A i \in Indices(s) :
      results[s][i].success =>
        /\ results[s][i].executable \in DOMAIN outFiles
        /\ outFiles[results[s][i].executable].runtime = results[s][i].platform
        /\ \A j \in Indices(s) \ {i} :
             results[s][j].success => results[s][j].path # results[s][i].path

\* C36 -- no output left by a failed platform: when build() has returned, a
\* platform whose result has success = false has no file at its output path.
\* (Read on builds of a single platform into a directory that held no
\* executable, so that a file at the path can only come from that pipeline.)
C36_FailedPlatformLeavesNoOutput ==
  \A s \in Built :
    \A i \in Indices(s) :
      ~results[s][i].success =>
        getExecutableName(opts[s].output, platformsOf(s)[i]) \notin DOMAIN outFiles

\* C37 -- cache validity under failure: the binary an acquisition returns from
\* the cache was written by an extraction that completed; a file that a failed
\* extraction left part-written at the canonical path is never returned, to
\* the same or to another session, as a cache hit.
C37_CacheHitsAreComplete ==
  \A s \in Sessions :
    (nodePath[s].src = "cache" /\ nodePath[s].key \in DOMAIN cache.bins) =>
      cache.bins[nodePath[s].key].content = "full"

\* C38 -- the sweep spares live sessions: a session that has been constructed
\* and whose build() has not yet returned still has its workspace directory,
\* whether or not cleanupAllTempDirs has run in the meantime.
BetweenConstructionAndReturn(s) ==
  pc[s] \in {"ready", "teardown"} \cup PipelineStages

C38_SweepSparesLiveSessions ==
  \A s \in Sessions :
    BetweenConstructionAndReturn(s) => tempBuildDir(s) \in workDirs

\* C39 -- a session is single-use: in a build() call made after an earlier
\* call of the same session returned with the workspace gone, no stage after
\* the writing of the configuration is entered (no blob generation, assembly,
\* download or injection), and the call returns one result per requested
\* platform, in order, each with success = false.
AfterTornDown(s) ==
  /\ calls[s] # <<>>
  /\ calls[s][Len(calls[s])] \in {"removed", "absent"}

C39_SecondBuildFailsEveryPlatform ==
  \A s \in Sessions :
    AfterTornDown(s) =>
      /\ pc[s] \in {"config", "teardown", "returned"}
      /\ trace[s] = <<>>
      /\ \A i \in 1..Len(results[s]) :
           /\ ~results[s][i].success
           /\ results[s][i].platform = platformsOf(s)[i]
           /\ failedAt[s][i] = "config"
      /\ pc[s] \in {"teardown", "returned"} => Len(results[s]) = Len(platformsOf(s))

\* The second build() of a two-platform session has returned.
C39_Witness ==
  \E s \in Built :
    /\ AfterTornDown(s)
    /\ Len(results[s]) = 2

\* C40 -- a win32 success is a verified one: a win32 pipeline that is about
\* to return a result with success = true has had its --help run executed to
\* the end with exit status zero, and the output of that run did not show the
\* banner of the interactive shell.
C40_WindowsSuccessIsVerified ==
  \A s \in Sessions :
    (pc[s] = "cleanup" /\ pending[s] = "none" /\ currentPlatform(s) = "win32") =>
      /\ probe[s] = "ran"
      /\ ~BannerSeen(s)

====
